---- MODULE Spec2Model ----
(***************************************************************************)
(* Model of Alarma_sensacion_termica_Github.py: a single-run heat-index    *)
(* alarm.  Conventions:                                                    *)
(*   - a Python str is the sequence of its lexical tokens: a maximal run   *)
(*     of decimal digits [k |-> "num", n |-> length, v |-> value], a       *)
(*     maximal run of one whitespace character [k |-> "ws", n |-> length,  *)
(*     c |-> the character], any other character [k |-> "chr", c |-> it];  *)
(*   - a naive datetime is [d |-> days since 2024-01-01, s |-> second of   *)
(*     the day] (sub-second parts are not modelled: now has microsecond    *)
(*     0); a timedelta is [days, seconds] with 0 <= seconds < 86400;       *)
(*   - a Python float is nan, an infinity, a signed zero, a decimal        *)
(*     m * 10^e, or, below 1e-314, a count of steps of the smallest double;*)
(*   - a JSON value is a record tagged by t: "absent" (key not present),   *)
(*     "null", "num" (a float), "int", "bool", "str", "list", "obj" (the   *)
(*     key/value pairs in the order of the dict, keys unique);             *)
(*   - Python None is the record None;                                     *)
(*   - integers are those of 32 bits, up to 2147483647 either way.         *)
(*     Outside the model are: a setting or an identifier beyond them; a    *)
(*     text, read or written, with a run of digits whose value is beyond   *)
(*     them (str(1e10) is such a text); a float literal whose digits,      *)
(*     taken together without the point and without the zeros at either    *)
(*     end, are beyond them (an exponent may be any 32-bit integer); the   *)
(*     character NUL and characters outside ASCII other than as plain      *)
(*     letters; grids of more than about seventy slots.                    *)
(***************************************************************************)
EXTENDS Integers, Sequences, FiniteSets, TLC

None == [t |-> "None"]

(***************************************************************************)
(* Strings                                                                 *)
(***************************************************************************)
Num(n, v) == [k |-> "num", n |-> n, v |-> v]

\* n times the whitespace character c
Run(c, n) == [k |-> "ws", n |-> n, c |-> c]

Ws(n) == Run(" ", n)

Tab == Run("\t", 1)

Chr(c) == [k |-> "chr", c |-> c]

\* str.strip(): drop leading and trailing whitespace
RECURSIVE LStrip(_)
LStrip(s) == IF s # <<>> /\ s[1].k = "ws" THEN LStrip(Tail(s)) ELSE s

RECURSIVE RStrip(_)
RStrip(s) ==
    IF s # <<>> /\ s[Len(s)].k = "ws" THEN RStrip(SubSeq(s, 1, Len(s) - 1)) ELSE s

Strip(s) == RStrip(LStrip(s))

\* str.split(","): the pieces between the commas, empty pieces included
RECURSIVE SplitFrom(_, _)
SplitFrom(s, cur) ==
    IF s = <<>> THEN <<cur>>
    ELSE IF Head(s) = Chr(",") THEN <<cur>> \o SplitFrom(Tail(s), <<>>)
    ELSE SplitFrom(Tail(s), Append(cur, Head(s)))

Split(s) == SplitFrom(s, <<>>)

RECURSIVE Pow10(_)
Pow10(n) == IF n <= 0 THEN 1 ELSE 10 * Pow10(n - 1)

\* number of decimal digits of v >= 0
RECURSIVE NDigits(_)
NDigits(v) == IF v < 10 THEN 1 ELSE 1 + NDigits(v \div 10)

Abs(v) == IF v < 0 THEN -v ELSE v

\* the tokens of a text put together from pieces: digit runs that meet are
\* one run, and so are runs of the same whitespace character
RECURSIVE Canon(_)
Canon(s) ==
    IF Len(s) < 2 THEN s
    ELSE IF s[1].k = "num" /\ s[2].k = "num"
    THEN Canon(<< Num(s[1].n + s[2].n, s[1].v * Pow10(s[2].n) + s[2].v) >>
               \o SubSeq(s, 3, Len(s)))
    ELSE IF s[1].k = "ws" /\ s[2].k = "ws" /\ s[1].c = s[2].c
    THEN Canon(<< Run(s[1].c, s[1].n + s[2].n) >> \o SubSeq(s, 3, Len(s)))
    ELSE << s[1] >> \o Canon(Tail(s))

\* str(int)
IntToStr(n) ==
    IF n < 0 THEN << Chr("-"), Num(NDigits(-n), -n) >> ELSE << Num(NDigits(n), n) >>

(***************************************************************************)
(* Natural numbers beyond 32 bits, as their decimal digits, lowest first   *)
(***************************************************************************)
RECURSIVE Digits(_)
Digits(v) == IF v < 10 THEN << v >> ELSE << v % 10 >> \o Digits(v \div 10)

DigitAt(A, i) == IF i \in 1..Len(A) THEN A[i] ELSE 0

Longer(A, B) == IF Len(A) > Len(B) THEN Len(A) ELSE Len(B)

\* A[1] * B[i] + A[2] * B[i - 1] + ... + A[j] * B[i + 1 - j]
RECURSIVE Conv(_, _, _, _)
Conv(A, B, i, j) ==
    IF j = 0 THEN 0 ELSE A[j] * DigitAt(B, i + 1 - j) + Conv(A, B, i, j - 1)

RECURSIVE MulFrom(_, _, _, _)
MulFrom(A, B, i, carry) ==
    IF i > Len(A) + Len(B) THEN <<>>
    ELSE << (Conv(A, B, i, Len(A)) + carry) % 10 >>
             \o MulFrom(A, B, i + 1, (Conv(A, B, i, Len(A)) + carry) \div 10)

BigMul(A, B) == MulFrom(A, B, 1, 0)

RECURSIVE AddFrom(_, _, _, _)
AddFrom(A, B, i, carry) ==
    IF i > Longer(A, B) + 1 THEN <<>>
    ELSE << (DigitAt(A, i) + DigitAt(B, i) + carry) % 10 >>
             \o AddFrom(A, B, i + 1, (DigitAt(A, i) + DigitAt(B, i) + carry) \div 10)

BigAdd(A, B) == AddFrom(A, B, 1, 0)

RECURSIVE LessFrom(_, _, _)
LessFrom(A, B, i) ==
    IF i = 0 THEN FALSE
    ELSE IF DigitAt(A, i) # DigitAt(B, i) THEN DigitAt(A, i) < DigitAt(B, i)
    ELSE LessFrom(A, B, i - 1)

BigLess(A, B) == LessFrom(A, B, Longer(A, B))

\* the number made of the digits of A from position i up
RECURSIVE ValueFrom(_, _)
ValueFrom(A, i) == IF i > Len(A) THEN 0 ELSE A[i] + 10 * ValueFrom(A, i + 1)

\* the digits of A below position i + 1, and those above
Low(A, i) == [p \in 1..i |-> DigitAt(A, p)]

High(A, i) == IF i >= Len(A) THEN <<>> ELSE SubSeq(A, i + 1, Len(A))

\* A without its leading zeros (a zero keeps one digit)
RECURSIVE Trim(_)
Trim(A) ==
    IF Len(A) > 1 /\ A[Len(A)] = 0 THEN Trim(SubSeq(A, 1, Len(A) - 1)) ELSE A

\* 10^n
PowDigits(n) == [p \in 1..(n + 1) |-> IF p = n + 1 THEN 1 ELSE 0]

(***************************************************************************)
(* Python float() and int() on the values the program hands them           *)
(*                                                                         *)
(* A float is nan, an infinity, a zero of either sign, or a decimal        *)
(* m * 10^e with m not a multiple of 10.  From 1e-314 up, decimals of up   *)
(* to ten significant digits (m within 32 bits) round to doubles that are  *)
(* all different, so the decimal stands for its double and the order of    *)
(* the decimals is the order of the doubles.  Below 1e-314 the doubles are *)
(* the multiples of 2^-1074 and a double is kept as its multiple n.        *)
(***************************************************************************)
NaN == [k |-> "nan"]

Inf(sign) == [k |-> "inf", s |-> sign]

RECURSIVE Norm(_, _)
Norm(m, e) ==
    IF m = 0 THEN [k |-> "num", m |-> 0, e |-> 0]
    ELSE IF m % 10 = 0 THEN Norm(m \div 10, e + 1)
    ELSE [k |-> "num", m |-> m, e |-> e]

\* -0.0: equal to 0.0 in every comparison, printed with its sign
NegZero == [k |-> "num", m |-> 0, e |-> 0, neg |-> TRUE]

Zero(sign) == IF sign < 0 THEN NegZero ELSE Norm(0, 0)

\* the double n * 2^-1074 (0 < n), with its sign
Sub(sign, n) == [k |-> "sub", s |-> sign, n |-> n]

\* the float of a value given in tenths
F(tenths) == Norm(tenths, -1)

\* position of the decimal point: |m * 10^e| = 0.d1d2... * 10^Order
Order(m, e) == NDigits(Abs(m)) + e

\* the first nine digits of m, and its tenth digit
Nine(m) ==
    IF NDigits(Abs(m)) > 9 THEN Abs(m) \div Pow10(NDigits(Abs(m)) - 9)
    ELSE Abs(m) * Pow10(9 - NDigits(Abs(m)))

Tenth(m) == IF NDigits(Abs(m)) > 9 THEN Abs(m) % 10 ELSE 0

\* 2^1074 / 10^324 = 0.202402253307310618352495346718..., thirty digits
CDigits == << 8, 1, 7, 6, 4, 3, 5, 9, 4, 2, 5, 3, 8, 1, 6, 0, 1, 3, 7, 0, 3, 3, 5, 2, 2, 0, 4, 2, 0, 2 >>

\* the number whose digits are P, with its lowest `drop` digits rounded away
RoundAt(P, drop) == ValueFrom(P, drop + 1) + (IF DigitAt(P, drop) >= 5 THEN 1 ELSE 0)

\* the multiple of 2^-1074 nearest to mag * 10^e, for 1e-324 <= mag * 10^e <
\* 1e-314: mag * 10^e / 2^-1074 = mag * CDigits * 10^(e + 294)
SubCount(mag, e) == RoundAt(BigMul(Digits(mag), CDigits), -294 - e)

SubOrZero(sign, n) == IF n = 0 THEN Zero(sign) ELSE Sub(sign, n)

\* the double nearest to sign * mag * 10^e (mag >= 0): at or beyond
\* 1.797693134862315808e308, half a step past the largest double, it is an
\* infinity; below 1e-314 it is a multiple of 2^-1074, zero included.  An
\* exponent above 309 is tested first: mag is at least 1 there, and adding
\* the digits of mag to an exponent near 2^31 would leave the integers
MakeFloat(sign, mag, e) ==
    IF mag = 0 THEN Zero(sign)
    ELSE IF e > 309 THEN Inf(sign)
    ELSE IF Order(mag, e) > 309
            \/ (Order(mag, e) = 309
                /\ (Nine(mag) > 179769313 \/ (Nine(mag) = 179769313 /\ Tenth(mag) >= 5)))
    THEN Inf(sign)
    ELSE IF Order(mag, e) < -323 THEN Zero(sign)
    ELSE IF Order(mag, e) <= -314
    THEN SubOrZero(sign, SubCount(mag, e))
    ELSE Norm(sign * mag, e)

Sgn(a) ==
    IF a.k = "sub" THEN a.s ELSE IF a.m > 0 THEN 1 ELSE IF a.m < 0 THEN -1 ELSE 0

\* |a| < |b| for decimals of the same order: the shorter mantissa is compared
\* with the leading digits of the longer one
DecLess(a, b) ==
    IF a.e >= b.e THEN Abs(a.m) <= (Abs(b.m) - 1) \div Pow10(a.e - b.e)
    ELSE Abs(a.m) \div Pow10(b.e - a.e) < Abs(b.m)

\* |a| < |b| for non-zero floats
MagLess(a, b) ==
    IF a.k = "sub" THEN (b.k # "sub" \/ a.n < b.n)
    ELSE IF b.k = "sub" THEN FALSE
    ELSE IF Order(a.m, a.e) # Order(b.m, b.e) THEN Order(a.m, a.e) < Order(b.m, b.e)
    ELSE DecLess(a, b)

NumLess(a, b) ==
    IF Sgn(a) # Sgn(b) THEN Sgn(a) < Sgn(b)
    ELSE IF Sgn(a) = 0 THEN FALSE
    ELSE IF Sgn(a) = 1 THEN MagLess(a, b)
    ELSE MagLess(b, a)

\* a < b for floats that are not nan
Less(a, b) ==
    IF a.k = "inf" THEN a.s = -1 /\ ~(b.k = "inf" /\ b.s = -1)
    ELSE IF b.k = "inf" THEN b.s = 1
    ELSE NumLess(a, b)

\* <= and > of float: every comparison with nan is False
FloatLE(a, b) == a.k # "nan" /\ b.k # "nan" /\ ~Less(b, a)

FloatGT(a, b) == a.k # "nan" /\ b.k # "nan" /\ Less(b, a)

\* bool(float): only the zeros are false
FloatTruthy(f) == ~(f.k = "num" /\ f.m = 0)
\* the information separators \x1c to \x1f are whitespace to str.strip() and
\* to strptime, but not to float() and int()
Separators == { "", "", "", "" }

IsNumSpace(tk) == tk.k = "ws" /\ tk.c \notin Separators

RECURSIVE NumLStrip(_)
NumLStrip(s) == IF s # <<>> /\ IsNumSpace(s[1]) THEN NumLStrip(Tail(s)) ELSE s

RECURSIVE NumRStrip(_)
NumRStrip(s) ==
    IF s # <<>> /\ IsNumSpace(s[Len(s)]) THEN NumRStrip(SubSeq(s, 1, Len(s) - 1)) ELSE s

\* the whitespace float() and int() skip around a literal
NumStrip(s) == NumRStrip(NumLStrip(s))

IsSign(tk) == tk.k = "chr" /\ tk.c \in {"+", "-"}

IsLetter(tk, lower, upper) == tk.k = "chr" /\ tk.c \in {lower, upper}

\* b spells the word given in lower and in upper case, in any mix of cases
IsWord(b, lower, upper) ==
    /\ Len(b) = Len(lower)
    /\ \A i \in 1..Len(lower) : IsLetter(b[i], lower[i], upper[i])

\* v * 10^z with the zeros at the end of v moved into z
RECURSIVE ZeroTrim(_, _)
ZeroTrim(v, z) ==
    IF v = 0 THEN [v |-> 0, z |-> 0]
    ELSE IF v % 10 = 0 THEN ZeroTrim(v \div 10, z + 1)
    ELSE [v |-> v, z |-> z]

\* the digits of value v * 10^z followed by the run of digits r
DigitJoin(v, z, r) ==
    IF r.v = 0 THEN [v |-> v, z |-> IF v = 0 THEN 0 ELSE z + r.n]
    ELSE IF v = 0 THEN ZeroTrim(r.v, 0)
    ELSE [v |-> v * Pow10(z + r.n - ZeroTrim(r.v, 0).z) + ZeroTrim(r.v, 0).v,
          z |-> ZeroTrim(r.v, 0).z]

\* digits with single underscores between them, read on from position i with
\* n digits of value v * 10^z already read (v does not end in 0); next is the
\* position after them
RECURSIVE DigitMore(_, _, _, _, _)
DigitMore(s, i, n, v, z) ==
    IF i + 1 <= Len(s) /\ s[i] = Chr("_") /\ s[i + 1].k = "num"
    THEN DigitMore(s, i + 2, n + s[i + 1].n,
                   DigitJoin(v, z, s[i + 1]).v, DigitJoin(v, z, s[i + 1]).z)
    ELSE [ok |-> TRUE, next |-> i, n |-> n, v |-> v, z |-> z]

\* the digits starting at position i, if there are any
DigitPart(s, i) ==
    IF i <= Len(s) /\ s[i].k = "num"
    THEN DigitMore(s, i + 1, s[i].n, ZeroTrim(s[i].v, 0).v, ZeroTrim(s[i].v, 0).z)
    ELSE [ok |-> FALSE, next |-> i, n |-> 0, v |-> 0, z |-> 0]

\* the integer the digits d spell
IntOf(d) == IF d.v = 0 THEN 0 ELSE d.v * Pow10(d.z)

\* the part after the integer digits: a point and the digits behind it
FracPart(s, i) ==
    IF i <= Len(s) /\ s[i] = Chr(".")
    THEN [dot |-> TRUE, d |-> DigitPart(s, i + 1)]
    ELSE [dot |-> FALSE, d |-> [ok |-> FALSE, next |-> i, n |-> 0, v |-> 0, z |-> 0]]

\* position after the fraction (a point need not be followed by digits)
FracEnd(fp, i) == IF fp.d.ok THEN fp.d.next ELSE IF fp.dot THEN i + 1 ELSE i

\* the exponent at position i: e or E, an optional sign, digits
ExpPart(s, i) ==
    IF i <= Len(s) /\ IsLetter(s[i], "e", "E")
    THEN IF i + 1 <= Len(s) /\ IsSign(s[i + 1])
         THEN [present |-> TRUE, sign |-> IF s[i + 1].c = "-" THEN -1 ELSE 1,
               d |-> DigitPart(s, i + 2)]
         ELSE [present |-> TRUE, sign |-> 1, d |-> DigitPart(s, i + 1)]
    ELSE [present |-> FALSE, sign |-> 1,
          d |-> [ok |-> TRUE, next |-> i, n |-> 0, v |-> 0, z |-> 0]]

\* the fraction digits d without their trailing zeros
FracTrim(d) == IF d.v = 0 THEN [n |-> 0, v |-> 0] ELSE [n |-> d.n - d.z, v |-> d.v]

\* the value of the exponent digits d, stopping at 2147483647 (a float with
\* an exponent that large is an infinity or a zero whatever it is exactly)
ExpValue(d) ==
    IF d.v = 0 THEN 0
    ELSE IF d.z > 9 THEN 2147483647
    ELSE IF d.v > 2147483647 \div Pow10(d.z) THEN 2147483647
    ELSE d.v * Pow10(d.z)

\* x + z for z >= 0, stopping at 2147483647: the exponent of the last digit
\* that is not zero of integer digits ending in z zeros
ExpPlus(x, z) == IF x > 0 /\ z > 2147483647 - x THEN 2147483647 ELSE x + z

\* x - n for n >= 0, stopping at -2147483647: the exponent of the last of n
\* fraction digits under the exponent x (a decimal that small is zero
\* whatever its exponent is exactly)
ExpMinus(x, n) == IF x < 0 /\ n > 2147483647 + x THEN -2147483647 ELSE x - n

\* the decimal with integer digits ip, fraction ft and exponent x
float_value(sign, ip, ft, x) ==
    IF ft.v = 0 THEN MakeFloat(sign, ip.v, ExpPlus(x, ip.z))
    ELSE IF ip.v = 0 THEN MakeFloat(sign, ft.v, ExpMinus(x, ft.n))
    ELSE MakeFloat(sign, ip.v * Pow10(ip.z + ft.n) + ft.v, ExpMinus(x, ft.n))

\* the float of integer digits ip, fraction fp and exponent ep, when the
\* three make up all of b
float_decimal(b, sign, ip, fp, ep) ==
    IF /\ (ip.ok \/ fp.d.ok)
       /\ ep.d.ok
       /\ ep.d.next = Len(b) + 1
    THEN float_value(sign, ip, FracTrim(fp.d), ep.sign * ExpValue(ep.d))
    ELSE None

float_number(b, sign, ip) ==
    float_decimal(b, sign, ip, FracPart(b, ip.next),
                  ExpPart(b, FracEnd(FracPart(b, ip.next), ip.next)))

\* the unsigned part of a float literal: "nan", "inf" or "infinity" in any
\* case, or digits (with underscores between digits), a point, digits and an
\* exponent
float_body(b, sign) ==
    IF IsWord(b, <<"n", "a", "n">>, <<"N", "A", "N">>) THEN NaN
    ELSE IF IsWord(b, <<"i", "n", "f">>, <<"I", "N", "F">>)
            \/ IsWord(b, <<"i", "n", "f", "i", "n", "i", "t", "y">>,
                         <<"I", "N", "F", "I", "N", "I", "T", "Y">>)
    THEN Inf(sign)
    ELSE float_number(b, sign, DigitPart(b, 1))

float_signed(s) ==
    IF s # <<>> /\ IsSign(s[1])
    THEN float_body(Tail(s), IF s[1].c = "-" THEN -1 ELSE 1)
    ELSE float_body(s, 1)

\* float(str): surrounding whitespace and a sign are accepted; None stands
\* for ValueError
float_str(raw) == float_signed(NumStrip(raw))

\* the unsigned part of an int literal: digits, with underscores between
\* digits
int_body(b, sign) ==
    IF DigitPart(b, 1).ok /\ DigitPart(b, 1).next = Len(b) + 1
    THEN [t |-> "int", v |-> sign * IntOf(DigitPart(b, 1))]
    ELSE None

int_signed(s) ==
    IF s # <<>> /\ IsSign(s[1])
    THEN int_body(Tail(s), IF s[1].c = "-" THEN -1 ELSE 1)
    ELSE int_body(s, 1)

\* int(str): surrounding whitespace and a sign are accepted; None stands for
\* ValueError
int_str(raw) == int_signed(NumStrip(raw))

\* float(x) for a JSON value x; None stands for a raised exception
float_of(x) ==
    CASE x.t = "num"  -> x.f
      [] x.t = "int"  -> Norm(x.v, 0)
      [] x.t = "bool" -> F(IF x.b THEN 10 ELSE 0)
      [] x.t = "str"  -> float_str(x.s)
      [] OTHER        -> None

safe_float(x) ==
    IF x.t \in {"absent", "null"} THEN None ELSE float_of(x)


(***************************************************************************)
(* str() and repr() of the values of a response                            *)
(***************************************************************************)
Word(w) == [i \in 1..Len(w) |-> Chr(w[i])]

\* the digits of a decimal m * 10^e (m > 0) written without exponent
FixedDigits(m, e) ==
    IF e >= 0 THEN << Num(NDigits(m) + e, m * Pow10(e)), Chr("."), Num(1, 0) >>
    ELSE IF NDigits(m) + e > 0
    THEN << Num(NDigits(m) + e, m \div Pow10(-e)), Chr("."), Num(-e, m % Pow10(-e)) >>
    ELSE << Num(1, 0), Chr("."), Num(-e, m) >>

\* the digits of m (m > 0) with a point after the first
SciDigits(m) ==
    IF NDigits(m) = 1 THEN << Num(1, m) >>
    ELSE << Num(1, m \div Pow10(NDigits(m) - 1)), Chr("."),
            Num(NDigits(m) - 1, m % Pow10(NDigits(m) - 1)) >>

\* the exponent x written with a sign and at least two digits
SciExp(x) ==
    << Chr("e"), Chr(IF x < 0 THEN "-" ELSE "+"),
       Num(IF Abs(x) < 10 THEN 2 ELSE NDigits(Abs(x)), Abs(x)) >>

\* repr of a positive decimal: plain from 0.0001 up to below 1e16, with an
\* exponent otherwise
PosFloatToStr(m, e) ==
    IF Order(m, e) - 1 < -4 \/ Order(m, e) - 1 >= 16
    THEN SciDigits(m) \o SciExp(Order(m, e) - 1)
    ELSE FixedDigits(m, e)

\* 2^-1074 = 4.94065645841246544176568792868...e-324, thirty digits, and
\* its half
KDigits == << 8, 6, 8, 2, 9, 7, 8, 6, 5, 6, 7, 1, 4, 4, 5, 6, 4, 2, 1, 4, 8, 5, 4, 6, 5, 6, 0, 4, 9, 4 >>

HDigits == << 4, 3, 4, 6, 9, 3, 4, 8, 2, 8, 8, 0, 2, 7, 2, 3, 2, 6, 0, 2, 9, 2, 2, 8, 2, 3, 0, 7, 4, 2 >>

\* n * 2^-1074 in units of 1e-353
SubProduct(n) == BigMul(Digits(n), KDigits)

\* rounding away the lowest pos digits of P rounds up
RoundsUp(P, pos) == DigitAt(P, pos) >= 5

\* P with its lowest pos digits rounded away still lies less than half a
\* step of the doubles from P, so it reads back as the same double
Within(P, pos) ==
    IF RoundsUp(P, pos) THEN BigLess(PowDigits(pos), BigAdd(Low(P, pos), HDigits))
    ELSE BigLess(Low(P, pos), HDigits)

\* the most digits that can be rounded away, from j down
RECURSIVE SubUnit(_, _)
SubUnit(P, j) == IF j = 0 \/ Within(P, 29 + j) THEN j ELSE SubUnit(P, j - 1)

\* the digits that are left
ShortDigits(P, pos) ==
    Trim(BigAdd(High(P, pos), IF RoundsUp(P, pos) THEN << 1 >> ELSE << 0 >>))

\* digits (lowest first) with a point after the leading one
DigitsSci(D) ==
    IF Len(D) = 1 THEN << Num(1, D[1]) >>
    ELSE << Num(1, D[Len(D)]), Chr("."),
            Num(Len(D) - 1, ValueFrom(SubSeq(D, 1, Len(D) - 1), 1)) >>

SubToStrAt(P, j) ==
    DigitsSci(ShortDigits(P, 29 + j))
        \o SciExp(j - 324 + Len(ShortDigits(P, 29 + j)) - 1)

\* repr of the double n * 2^-1074: the shortest decimal that reads back as
\* that double
SubToStr(n) == SubToStrAt(SubProduct(n), SubUnit(SubProduct(n), 10))

Minus(sign) == IF sign < 0 THEN << Chr("-") >> ELSE <<>>

\* str(float)
FloatToStr(f) ==
    CASE f.k = "nan" -> Word(<<"n", "a", "n">>)
      [] f.k = "inf" -> Minus(f.s) \o Word(<<"i", "n", "f">>)
      [] f.k = "sub" -> Minus(f.s) \o SubToStr(f.n)
      [] f = NegZero -> << Chr("-"), Num(1, 0), Chr("."), Num(1, 0) >>
      [] f.m = 0     -> << Num(1, 0), Chr("."), Num(1, 0) >>
      [] f.m < 0     -> << Chr("-") >> \o PosFloatToStr(-f.m, f.e)
      [] OTHER       -> PosFloatToStr(f.m, f.e)

Has(s, c) == \E i \in 1..Len(s) : s[i] = Chr(c)

\* the quote repr puts around a string: " when the string has a ' and no "
QuoteOf(s) == IF Has(s, "'") /\ ~Has(s, "\"") THEN "\"" ELSE "'"

\* the ASCII control characters repr writes as \xNN
Controls == { "", "", "", "", "", "", "", "", "", "\f", "", "", "", "", "", "", "", "", "", "", "", "", "", "", "", "", "", "", "" }

\* the two hexadecimal digits of a control character
HexOf(c) ==
    CASE c = "" -> << Num(2, 1) >>
      [] c = "" -> << Num(2, 2) >>
      [] c = "" -> << Num(2, 3) >>
      [] c = "" -> << Num(2, 4) >>
      [] c = "" -> << Num(2, 5) >>
      [] c = "" -> << Num(2, 6) >>
      [] c = "" -> << Num(2, 7) >>
      [] c = "" -> << Num(2, 8) >>
      [] c = "" -> << Num(1, 0), Chr("b") >>
      [] c = "\f" -> << Num(1, 0), Chr("c") >>
      [] c = "" -> << Num(1, 0), Chr("e") >>
      [] c = "" -> << Num(1, 0), Chr("f") >>
      [] c = "" -> << Num(2, 10) >>
      [] c = "" -> << Num(2, 11) >>
      [] c = "" -> << Num(2, 12) >>
      [] c = "" -> << Num(2, 13) >>
      [] c = "" -> << Num(2, 14) >>
      [] c = "" -> << Num(2, 15) >>
      [] c = "" -> << Num(2, 16) >>
      [] c = "" -> << Num(2, 17) >>
      [] c = "" -> << Num(2, 18) >>
      [] c = "" -> << Num(2, 19) >>
      [] c = "" -> << Num(1, 1), Chr("a") >>
      [] c = "" -> << Num(1, 1), Chr("b") >>
      [] c = "" -> << Num(1, 1), Chr("c") >>
      [] c = "" -> << Num(1, 1), Chr("d") >>
      [] c = "" -> << Num(1, 1), Chr("e") >>
      [] c = "" -> << Num(1, 1), Chr("f") >>
      [] c = "" -> << Num(1, 7), Chr("f") >>

\* one character of a string inside its repr: the quote in use and the
\* backslash get a backslash, tab, newline and carriage return their letter,
\* the other control characters \x and their code
EscapeChar(c, q) ==
    IF c = q \/ c = "\\" THEN << Chr("\\"), Chr(c) >>
    ELSE IF c = "\t" THEN << Chr("\\"), Chr("t") >>
    ELSE IF c = "\n" THEN << Chr("\\"), Chr("n") >>
    ELSE IF c = "\r" THEN << Chr("\\"), Chr("r") >>
    ELSE IF c \in Controls THEN << Chr("\\"), Chr("x") >> \o HexOf(c)
    ELSE << Chr(c) >>

RECURSIVE Repeat(_, _)
Repeat(s, n) == IF n <= 0 THEN <<>> ELSE s \o Repeat(s, n - 1)

\* one token of a string inside its repr
EscapeTok(tk, q) ==
    IF tk.k = "num" THEN << tk >>
    ELSE IF tk.k = "chr" THEN EscapeChar(tk.c, q)
    ELSE IF EscapeChar(tk.c, q) = << Chr(tk.c) >> THEN << tk >>
    ELSE Repeat(EscapeChar(tk.c, q), tk.n)

RECURSIVE Escaped(_, _)
Escaped(s, q) == IF s = <<>> THEN <<>> ELSE EscapeTok(Head(s), q) \o Escaped(Tail(s), q)

StrRepr(s) ==
    Canon(<< Chr(QuoteOf(s)) >> \o Escaped(s, QuoteOf(s)) \o << Chr(QuoteOf(s)) >>)

\* repr(x) for a JSON value; a dict prints its pairs in their order
RECURSIVE py_repr(_)
RECURSIVE ReprItems(_)
RECURSIVE ReprPairs(_)
ReprItems(items) ==
    IF items = <<>> THEN <<>>
    ELSE IF Len(items) = 1 THEN py_repr(items[1])
    ELSE py_repr(items[1]) \o << Chr(","), Ws(1) >> \o ReprItems(Tail(items))

ReprPairs(pairs) ==
    IF pairs = <<>> THEN <<>>
    ELSE StrRepr(pairs[1].key) \o << Chr(":"), Ws(1) >> \o py_repr(pairs[1].val)
             \o (IF Len(pairs) = 1 THEN <<>> ELSE << Chr(","), Ws(1) >>)
             \o ReprPairs(Tail(pairs))

py_repr(x) ==
    CASE x.t = "int"  -> IntToStr(x.v)
      [] x.t = "num"  -> FloatToStr(x.f)
      [] x.t = "bool" -> IF x.b THEN Word(<<"T", "r", "u", "e">>)
                         ELSE Word(<<"F", "a", "l", "s", "e">>)
      [] x.t = "null" -> Word(<<"N", "o", "n", "e">>)
      [] x.t = "str"  -> StrRepr(x.s)
      [] x.t = "list" -> << Chr("[") >> \o ReprItems(x.items) \o << Chr("]") >>
      [] x.t = "obj"  -> << Chr("{") >> \o ReprPairs(x.pairs) \o << Chr("}") >>

\* str(estacionid): a string is itself, any other value prints as its repr
py_str(x) == IF x.t = "str" THEN x.s ELSE py_repr(x)

(***************************************************************************)
(* JSON values                                                             *)
(***************************************************************************)
JAbsent == [t |-> "absent"]

JNull == [t |-> "null"]

JNum(tenths) == [t |-> "num", f |-> F(tenths)]

JFloat(f) == [t |-> "num", f |-> f]

JNaN == [t |-> "num", f |-> NaN]

JBool(b) == [t |-> "bool", b |-> b]

JStr(s) == [t |-> "str", s |-> s]

JList(items) == [t |-> "list", items |-> items]

JInt(v) == [t |-> "int", v |-> v]

Pair(key, val) == [key |-> key, val |-> val]

IsPresent(p) == p.val.t # "absent"

\* a dict with the given pairs, in their order; a pair whose value is absent
\* stands for a key the dict does not have
Obj(pairs) == [t |-> "obj", pairs |-> SelectSeq(pairs, IsPresent)]

\* dict.get(key): the value under the key, absent when the dict has no such
\* key (the code reads that as None, or as the default it passes)
RECURSIVE GetFrom(_, _)
GetFrom(pairs, key) ==
    IF pairs = <<>> THEN JAbsent
    ELSE IF pairs[1].key = key THEN pairs[1].val
    ELSE GetFrom(Tail(pairs), key)

Get(x, key) == GetFrom(x.pairs, key)

K_fecha == << Chr("f"), Chr("e"), Chr("c"), Chr("h"), Chr("a") >>

K_indice_calor ==
    << Chr("i"), Chr("n"), Chr("d"), Chr("i"), Chr("c"), Chr("e"), Chr("_"),
       Chr("c"), Chr("a"), Chr("l"), Chr("o"), Chr("r") >>

K_temperatura ==
    << Chr("t"), Chr("e"), Chr("m"), Chr("p"), Chr("e"), Chr("r"), Chr("a"),
       Chr("t"), Chr("u"), Chr("r"), Chr("a") >>

K_estaciones ==
    << Chr("e"), Chr("s"), Chr("t"), Chr("a"), Chr("c"), Chr("i"), Chr("o"),
       Chr("n"), Chr("e"), Chr("s") >>

K_estacionid ==
    << Chr("e"), Chr("s"), Chr("t"), Chr("a"), Chr("c"), Chr("i"), Chr("o"),
       Chr("n"), Chr("i"), Chr("d") >>

K_codigo == << Chr("c"), Chr("o"), Chr("d"), Chr("i"), Chr("g"), Chr("o") >>

K_finca == << Chr("f"), Chr("i"), Chr("n"), Chr("c"), Chr("a") >>

K_distancia ==
    << Chr("d"), Chr("i"), Chr("s"), Chr("t"), Chr("a"), Chr("n"), Chr("c"),
       Chr("i"), Chr("a") >>

(***************************************************************************)
(* Calendar and datetime.strptime(s, "%Y-%m-%d %H:%M:%S")                  *)
(***************************************************************************)
IsLeap(y) == (y % 4 = 0 /\ y % 100 # 0) \/ y % 400 = 0

DaysInMonth(y, m) ==
    IF m = 2 THEN (IF IsLeap(y) THEN 29 ELSE 28)
    ELSE IF m \in {4, 6, 9, 11} THEN 30 ELSE 31

\* days from 1970-01-01 to y-m-d in the proleptic Gregorian calendar
DaysFromCivil(y, m, d) ==
    LET yy  == IF m <= 2 THEN y - 1 ELSE y
        mp  == IF m > 2 THEN m - 3 ELSE m + 9
    IN  (yy \div 400) * 146097
          + (yy % 400) * 365 + (yy % 400) \div 4 - (yy % 400) \div 100
          + (153 * mp + 2) \div 5 + d - 1 - 719468

EpochDays == DaysFromCivil(2024, 1, 1)

\* the days of datetime.min (0001-01-01) and datetime.max (9999-12-31)
MinDay == DaysFromCivil(1, 1, 1) - EpochDays

MaxDay == DaysFromCivil(9999, 12, 31) - EpochDays

\* datetime(y, m, d, h, mi, s)
DateTime(y, m, d, h, mi, s) ==
    [d |-> DaysFromCivil(y, m, d) - EpochDays, s |-> h * 3600 + mi * 60 + s]

Minute(dt) == (dt.s \div 60) % 60

Second(dt) == dt.s % 60

\* a < b for datetimes
Before(a, b) == a.d < b.d \/ (a.d = b.d /\ a.s < b.s)

\* dt moved by whole days and by seconds
Shift(dt, days, seconds) ==
    [d |-> dt.d + days + (dt.s + seconds) \div 86400, s |-> (dt.s + seconds) % 86400]

\* dt - timedelta(minutes=mins) and dt - timedelta(hours=hours), whether or
\* not the result is a date datetime can hold
MinusMinutes(dt, mins) == Shift(dt, -(mins \div 1440), -((mins % 1440) * 60))

MinusHours(dt, hours) == Shift(dt, -(hours \div 24), -((hours % 24) * 3600))

\* the years 1 to 9999: outside them datetime arithmetic raises OverflowError
InRange(dt) == dt.d >= MinDay /\ dt.d <= MaxDay

\* a - b for datetimes: a timedelta, 0 <= seconds < 86400
TimeDiff(a, b) ==
    [days |-> a.d - b.d + (a.s - b.s) \div 86400, seconds |-> (a.s - b.s) % 86400]

\* what the regular expression of strptime sees of whitespace: \s+ takes a
\* run of any whitespace characters
RECURSIVE Squeeze(_)
Squeeze(s) ==
    IF Len(s) < 2 THEN s
    ELSE IF s[1].k = "ws" /\ s[2].k = "ws"
    THEN Squeeze(<< Run("mixed", s[1].n + s[2].n) >> \o SubSeq(s, 3, Len(s)))
    ELSE << s[1] >> \o Squeeze(Tail(s))

\* a field of one or two digits whose value lies in lo..hi
IsField(tk, lo, hi) == tk.k = "num" /\ tk.n <= 2 /\ tk.v >= lo /\ tk.v <= hi

\* the regular expression of the format, with the day token at position 5 + o:
\* four-digit year, the other fields one or two digits, the blank of the
\* format matching any run of whitespace, nothing left over
StrpShape(s, o) ==
    /\ Len(s) = 11 + o
    /\ s[1].k = "num" /\ s[1].n = 4
    /\ s[2] = Chr("-")
    /\ IsField(s[3], 1, 12)
    /\ s[4] = Chr("-")
    /\ IsField(s[5 + o], 1, 31)
    /\ s[6 + o].k = "ws"
    /\ IsField(s[7 + o], 0, 23)
    /\ s[8 + o] = Chr(":")
    /\ IsField(s[9 + o], 0, 59)
    /\ s[10 + o] = Chr(":")
    /\ IsField(s[11 + o], 0, 61)

\* datetime() on the matched fields rejects year 0, a day beyond the month
\* and a second above 59
StrpMake(s, o) ==
    IF s[1].v >= 1 /\ s[5 + o].v <= DaysInMonth(s[1].v, s[3].v) /\ s[11 + o].v <= 59
    THEN [t |-> "dt",
          v |-> DateTime(s[1].v, s[3].v, s[5 + o].v, s[7 + o].v, s[9 + o].v, s[11 + o].v)]
    ELSE [t |-> "ValueError"]

\* the match on the squeezed tokens; %d also matches one blank followed by
\* one digit
StrpMatch(s) ==
    IF StrpShape(s, 0) THEN StrpMake(s, 0)
    ELSE IF StrpShape(s, 1) /\ s[5] = Ws(1) /\ s[6].n = 1 THEN StrpMake(s, 1)
    ELSE [t |-> "ValueError"]

\* strptime with the format "%Y-%m-%d %H:%M:%S"
strptime(s) == StrpMatch(Squeeze(s))

\* parse_api_dt: the parsed datetime, or None when strptime raises
parse_api_dt(s) ==
    IF strptime(s).t = "dt" THEN strptime(s) ELSE None

(***************************************************************************)
(* Time-slot grid                                                          *)
(***************************************************************************)
\* (dt.minute // slot_minutes) * slot_minutes, the division rounding down
\* also for a negative slot_minutes
floor_minute(dt, slot_minutes) == (Minute(dt) \div slot_minutes) * slot_minutes

\* what floor_to_slot raises: the division by zero, or replace() refusing a
\* minute outside 0..59 (a negative slot_minutes rounds the minute up)
floor_error(dt, slot_minutes) ==
    IF slot_minutes = 0 THEN "ZeroDivisionError"
    ELSE IF floor_minute(dt, slot_minutes) < 0 \/ floor_minute(dt, slot_minutes) > 59
    THEN "ValueError"
    ELSE "none"

\* the flooring without replace(second=0)
floor_to_slot_keep_seconds(dt, slot_minutes) ==
    [d |-> dt.d, s |-> dt.s - Minute(dt) * 60 + floor_minute(dt, slot_minutes) * 60]

\* dt.replace(minute=(dt.minute // slot_minutes) * slot_minutes, second=0)
floor_to_slot(dt, slot_minutes) ==
    [d |-> dt.d,
     s |-> dt.s - Minute(dt) * 60 - Second(dt) + floor_minute(dt, slot_minutes) * 60]

\* build_slots with the loop test `mins < max_age_min`
RECURSIVE build_slots_loop_lt(_, _, _, _, _)
build_slots_loop_lt(base_slot, slot_minutes, max_age_min, mins, slots) ==
    IF mins >= max_age_min THEN slots
    ELSE IF slot_minutes >= max_age_min - mins
    THEN Append(slots, MinusMinutes(base_slot, mins))
    ELSE build_slots_loop_lt(base_slot, slot_minutes, max_age_min, mins + slot_minutes,
                             Append(slots, MinusMinutes(base_slot, mins)))

\* the while loop of build_slots, for a positive slot_minutes or a negative
\* max_age_min (mins is then 0 <= mins <= max_age_min inside the loop).  The
\* pass after which mins + slot_minutes is beyond max_age_min is the last
\* one; told by slot_minutes > max_age_min - mins, which stays within 32
\* bits where the sum may not
RECURSIVE build_slots_loop(_, _, _, _, _)
build_slots_loop(base_slot, slot_minutes, max_age_min, mins, slots) ==
    IF mins > max_age_min THEN slots
    ELSE IF slot_minutes > max_age_min - mins
    THEN Append(slots, MinusMinutes(base_slot, mins))
    ELSE build_slots_loop(base_slot, slot_minutes, max_age_min, mins + slot_minutes,
                          Append(slots, MinusMinutes(base_slot, mins)))

\* the oldest slot the loop is to reach lies before the year 1
loop_overflows(base_slot, slot_minutes, max_age_min) ==
    ~InRange(MinusMinutes(base_slot, (max_age_min \div slot_minutes) * slot_minutes))

\* the loop of build_slots does not come to its end: with a negative
\* slot_minutes and max_age_min >= 0 mins counts down and the test never
\* fails, with a positive one the slots run out of the years datetime holds
loop_runs_away(base_slot, slot_minutes, max_age_min) ==
    /\ max_age_min >= 0
    /\ (slot_minutes < 0 \/ loop_overflows(base_slot, slot_minutes, max_age_min))

\* minutes a loop that runs away has before its slots leave the years 1 to
\* 9999: up to 9999-12-31 23:59 when it counts forward, back to 0001-01-01
\* 00:00 otherwise; as digits
loop_room(base_slot, slot_minutes) ==
    IF slot_minutes < 0
    THEN BigAdd(BigMul(Digits(MaxDay - base_slot.d), Digits(1440)),
                Digits(1439 - base_slot.s \div 60))
    ELSE BigAdd(BigMul(Digits(base_slot.d - MinDay), Digits(1440)),
                Digits(base_slot.s \div 60))

\* the slots a loop that runs away appends are at most a million: a list
\* taken to fit into the memory of any machine, so that the loop gets as far
\* as the slot that cannot be made
loop_fits(base_slot, slot_minutes) ==
    BigLess(loop_room(base_slot, slot_minutes),
            BigMul(Digits(1000000), Digits(Abs(slot_minutes))))

\* build_slots: the grid and its first slot, or the exception that leaves
\* it.  A loop that runs away ends when a slot leaves the years 1 to 9999
\* (OverflowError); when the list grows long before that, it may outgrow the
\* memory first (MemoryError), whichever happens on the machine: "unbounded"
build_slots(now_local, slot_minutes, max_age_min) ==
    IF floor_error(now_local, slot_minutes) # "none"
    THEN [t |-> floor_error(now_local, slot_minutes)]
    ELSE IF ~loop_runs_away(floor_to_slot(now_local, slot_minutes), slot_minutes,
                            max_age_min)
    THEN [t |-> "ret",
          slots |-> build_slots_loop(floor_to_slot(now_local, slot_minutes),
                                     slot_minutes, max_age_min, 0, <<>>),
          base_slot |-> floor_to_slot(now_local, slot_minutes)]
    ELSE IF loop_fits(floor_to_slot(now_local, slot_minutes), slot_minutes)
    THEN [t |-> "OverflowError"]
    ELSE [t |-> "unbounded"]

(***************************************************************************)
(* Heat-index selector                                                     *)
(***************************************************************************)
\* dict.get(key) on a reading: an absent key reads as None, like a null
IsNone(x) == x.t \in {"absent", "null"}

\* by_slot after the loop body has run for a reading whose timestamp, if it
\* has one, can be floored
pick_step(by_slot, rec, slot_minutes) ==
    LET fecha == Get(rec, K_fecha)
        dt    == parse_api_dt(fecha.s)
        rec_slot == floor_to_slot(dt.v, slot_minutes)
        hi_val == safe_float(Get(rec, K_indice_calor))
        t_val  == safe_float(Get(rec, K_temperatura))
    IN  IF fecha.t # "str" THEN by_slot
        ELSE IF dt = None THEN by_slot
        ELSE IF hi_val = None THEN by_slot
        ELSE [s \in DOMAIN by_slot \cup {rec_slot} |->
                 IF s = rec_slot
                 THEN [rec |-> rec, hi_val |-> hi_val, t_val |-> t_val, dt |-> dt.v]
                 ELSE by_slot[s]]

\* what the loop body raises on a reading: floor_to_slot is called on every
\* timestamp that parses, before the heat index is looked at
step_error(rec, slot_minutes) ==
    IF Get(rec, K_fecha).t = "str" /\ parse_api_dt(Get(rec, K_fecha).s) # None
    THEN floor_error(parse_api_dt(Get(rec, K_fecha).s).v, slot_minutes)
    ELSE "none"

\* the loop over the readings; a reading that is not a dict has no .get and
\* raises AttributeError out of the function.  by_slot is what the loop has
\* stored when it ends or is left by the exception
RECURSIVE pick_fill(_, _, _, _)
pick_fill(records, i, slot_minutes, by_slot) ==
    IF i > Len(records) THEN [t |-> "ok", by_slot |-> by_slot]
    ELSE IF records[i].t # "obj" THEN [t |-> "AttributeError", by_slot |-> by_slot]
    ELSE IF step_error(records[i], slot_minutes) # "none"
    THEN [t |-> step_error(records[i], slot_minutes), by_slot |-> by_slot]
    ELSE pick_fill(records, i + 1, slot_minutes,
                   pick_step(by_slot, records[i], slot_minutes))

\* the first index i..Len(slots) of the grid whose slot is a key of by_slot,
\* or 0 when there is none
RECURSIVE pick_walk(_, _, _)
pick_walk(slots, i, by_slot) ==
    IF i > Len(slots) THEN 0
    ELSE IF slots[i] \in DOMAIN by_slot THEN i
    ELSE pick_walk(slots, i + 1, by_slot)

NoSelection ==
    [t |-> "ret", rec |-> None, hi_val |-> None, t_val |-> None,
     dt_api |-> None, slot |-> None]

\* the walk over the grid and the return statements, given the filled by_slot
pick_return(filled, slots) ==
    LET k == pick_walk(slots, 1, filled.by_slot)
        e == filled.by_slot[slots[k]]
    IN  IF filled.t # "ok" THEN [t |-> filled.t]
        ELSE IF k = 0 THEN NoSelection
        ELSE [t |-> "ret", rec |-> e.rec, hi_val |-> e.hi_val, t_val |-> e.t_val,
              dt_api |-> [t |-> "dt", v |-> e.dt],
              slot |-> [t |-> "dt", v |-> slots[k]]]

pick_heatindex_record(records, slots, slot_minutes) ==
    pick_return(pick_fill(records, 1, slot_minutes, <<>>), slots)
(***************************************************************************)
(* Configuration                                                           *)
(***************************************************************************)
Unset == [t |-> "unset"]

Set(s) == [t |-> "str", s |-> s]

\* env(name, default): os.getenv(name, default).strip()
env(v, default) == Strip(IF v.t = "unset" THEN default ELSE v.s)

\* all([...]) over the six required settings with LON left out
required_present_no_lon(e) ==
    /\ env(e.TELEGRAM_TOKEN, <<>>) # <<>>
    /\ env(e.TELEGRAM_CHAT_IDS, <<>>) # <<>>
    /\ env(e.REDMET_USER, <<>>) # <<>>
    /\ env(e.REDMET_PASS, <<>>) # <<>>
    /\ env(e.LAT, <<>>) # <<>>

\* all([telegram_token, chat_ids_raw, redmet_user, redmet_pass, lat, lon])
required_present(e) ==
    /\ env(e.TELEGRAM_TOKEN, <<>>) # <<>>
    /\ env(e.TELEGRAM_CHAT_IDS, <<>>) # <<>>
    /\ env(e.REDMET_USER, <<>>) # <<>>
    /\ env(e.REDMET_PASS, <<>>) # <<>>
    /\ env(e.LAT, <<>>) # <<>>
    /\ env(e.LON, <<>>) # <<>>

NonEmpty(c) == c # <<>>

StripEach(parts) == [i \in 1..Len(parts) |-> Strip(parts[i])]

\* [c.strip() for c in chat_ids_raw.split(",") if c.strip()]
parse_chat_ids(chat_ids_raw) == SelectSeq(StripEach(Split(chat_ids_raw)), NonEmpty)

\* the optional settings with their defaults; a field is None when float()
\* or int() raises ValueError
options(e) ==
    [heat_index_threshold |->
         float_str(env(e.HEAT_INDEX_THRESHOLD, << Num(2, 10), Chr("."), Num(1, 0) >>)),
     slot_minutes   |-> int_str(env(e.SLOT_MINUTES, << Num(2, 15) >>)),
     max_age_min    |-> int_str(env(e.MAX_AGE_MIN, << Num(2, 45) >>)),
     lookback_hours |-> int_str(env(e.LOOKBACK_HOURS, << Num(1, 6) >>)),
     suppress_if_older_than_min |->
         int_str(env(e.SUPPRESS_IF_OLDER_THAN_MIN, << Num(2, 90) >>))]

options_ok(o) ==
    /\ o.heat_index_threshold # None
    /\ o.slot_minutes # None
    /\ o.max_age_min # None
    /\ o.lookback_hours # None
    /\ o.suppress_if_older_than_min # None

\* the settings main() works with once they are all read
config(e, o) ==
    [telegram_token |-> env(e.TELEGRAM_TOKEN, <<>>),
     chat_ids       |-> parse_chat_ids(env(e.TELEGRAM_CHAT_IDS, <<>>)),
     heat_index_threshold |-> o.heat_index_threshold,
     slot_minutes   |-> o.slot_minutes.v,
     max_age_min    |-> o.max_age_min.v,
     lookback_hours |-> o.lookback_hours.v,
     suppress_if_older_than_min |-> o.suppress_if_older_than_min.v]

\* strftime("%Y-%m-%d %H:%M"): the instant with its seconds dropped
fmt_minute(dt) == [d |-> dt.d, s |-> dt.s - Second(dt)]

\* line 170: now_local - timedelta(hours=lookback_hours) leaves the years 1 to
\* 9999 and raises OverflowError
lookback_overflows(now_local, lookback_hours) ==
    ~InRange(MinusHours(now_local, lookback_hours))

\* fechaini and fechafin of the run
fechaini_of(now_local, lookback_hours) == fmt_minute(MinusHours(now_local, lookback_hours))

fechafin_of(now_local) == fmt_minute(now_local)

(***************************************************************************)
(* REDMET calls: what the code makes of a response                         *)
(***************************************************************************)
\* truth value of a JSON value: None, zero, the empty string, the empty list
\* and the empty dict are false
Truthy(x) ==
    CASE x.t \in {"absent", "null"} -> FALSE
      [] x.t = "int"  -> x.v # 0
      [] x.t = "num"  -> FloatTruthy(x.f)
      [] x.t = "bool" -> x.b
      [] x.t = "str"  -> x.s # <<>>
      [] x.t = "list" -> x.items # <<>>
      [] x.t = "obj"  -> x.pairs # <<>>

\* raise_for_status that lets every response through
raise_for_status_never(resp) == FALSE

\* r.raise_for_status() (and the transport itself) raises on a failed call
raise_for_status(resp) == resp.t = "fail"

\* a body r.json() cannot decode
NotJson == [t |-> "notjson"]

\* get_nearest_stations after raise_for_status: data.get("estaciones", []) or []
\* (a body that is not a dict has no .get)
get_nearest_stations(body) ==
    IF body.t = "notjson" THEN [t |-> "JSONDecodeError"]
    ELSE IF body.t # "obj" THEN [t |-> "AttributeError"]
    ELSE IF ~Truthy(Get(body, K_estaciones)) THEN [t |-> "ret", v |-> JList(<<>>)]
    ELSE [t |-> "ret", v |-> Get(body, K_estaciones)]

\* get_station_records after raise_for_status, estacionid being the string
\* the caller made of the identifier: a dict is looked up under
\* str(estacionid) and anything but a list there is dropped, a list is
\* returned as it is, any other body is empty
get_station_records(body, estacionid) ==
    IF body.t = "notjson" THEN [t |-> "JSONDecodeError"]
    ELSE IF body.t = "obj"
    THEN (IF Get(body, estacionid).t = "list"
          THEN [t |-> "ret", v |-> Get(body, estacionid).items]
          ELSE [t |-> "ret", v |-> <<>>])
    ELSE IF body.t = "list" THEN [t |-> "ret", v |-> body.items]
    ELSE [t |-> "ret", v |-> <<>>]

\* what stops the loop over estaciones[:3] when estaciones is a true value
\* that is not a list: the characters of a string have no .get, a number
\* cannot be sliced, and a dict is asked for the key slice(None, 3), which
\* is TypeError (unhashable) up to Python 3.11 and KeyError from 3.12 on
slice_error(estaciones) ==
    IF estaciones.t = "str" THEN {"AttributeError"}
    ELSE IF estaciones.t = "obj" THEN {"TypeError", "KeyError"}
    ELSE {"TypeError"}

\* estaciones[:4]
first_four(estaciones) ==
    SubSeq(estaciones, 1, IF Len(estaciones) < 4 THEN Len(estaciones) ELSE 4)

\* estaciones[:3]
first_three(estaciones) ==
    SubSeq(estaciones, 1, IF Len(estaciones) < 3 THEN Len(estaciones) ELSE 3)

(***************************************************************************)
(* Alert decision and message                                              *)
(***************************************************************************)
\* the difference taken the other way round
age_seconds_rev(now_local, dt_api) == TimeDiff(dt_api, now_local)

\* now_local - dt_api, the timedelta whose total_seconds() / 60 is age_min
age_seconds(now_local, dt_api) == TimeDiff(now_local, dt_api)

\* the age test with >= in place of >
too_old_ge(age, suppress_if_older_than_min) ==
    \/ age.days > suppress_if_older_than_min \div 1440
    \/ /\ age.days = suppress_if_older_than_min \div 1440
       /\ age.seconds >= (suppress_if_older_than_min % 1440) * 60

\* age_min > suppress_if_older_than_min, on whole days and the rest
too_old(age, suppress_if_older_than_min) ==
    \/ age.days > suppress_if_older_than_min \div 1440
    \/ /\ age.days = suppress_if_older_than_min \div 1440
       /\ age.seconds > (suppress_if_older_than_min % 1440) * 60

\* dict.get(key, "") on a station
get_or_empty(x) == IF x.t = "absent" THEN [t |-> "str", s |-> <<>>] ELSE x

\* the fields the fixed template is filled with (the age is kept as the
\* timedelta, its rounding for display is not modelled)
message(sta, rec, hi_val, t_val, heat_index_threshold, age) ==
    [codigo |-> get_or_empty(Get(sta, K_codigo)),
     finca  |-> get_or_empty(Get(sta, K_finca)),
     dist   |-> get_or_empty(Get(sta, K_distancia)),
     temp_txt  |-> t_val,
     hi_val    |-> hi_val,
     threshold |-> heat_index_threshold,
     fecha_api |-> get_or_empty(Get(rec, K_fecha)),
     age       |-> age]

\* the loop of send_telegram_html stopping after the first recipient
send_done_first(k, chat_ids) == k > 1

\* the loop of send_telegram_html is over after the last recipient
send_done(k, chat_ids) == k > Len(chat_ids)

(***************************************************************************)
(* Inputs: what the API may hand back                                      *)
(***************************************************************************)
\* the API's own rendering of a timestamp: YYYY-MM-DD HH:MM:SS
Iso(y, m, d, h, mi, s) ==
    << Num(4, y), Chr("-"), Num(2, m), Chr("-"), Num(2, d), Ws(1),
       Num(2, h), Chr(":"), Num(2, mi), Chr(":"), Num(2, s) >>

Word3(a, b, c) == << Chr(a), Chr(b), Chr(c) >>

Reading(fecha, hi, temp) ==
    Obj(<< Pair(K_fecha, fecha), Pair(K_indice_calor, hi), Pair(K_temperatura, temp) >>)

\* readings of 2024-01-01 around 10:30, good and bad; the sixth is
\* "2024/01/01 10:32:00" and the seventh "2024-1-1  10:34:5"
RecordPool ==
    { Reading(JStr(Iso(2024, 1, 1, 10, 31, 0)), JNum(350), JNum(300)),
      Reading(JStr(Iso(2024, 1, 1, 10, 40, 10)),
              JStr(<< Num(2, 36), Chr("."), Num(1, 5) >>), JAbsent),
      Reading(JStr(Iso(2024, 1, 1, 10, 16, 0)), JNum(120), JStr(Word3("a", "b", "c"))),
      Reading(JStr(Iso(2024, 1, 1, 10, 33, 0)), JNull, JNull),
      Reading(JStr(Iso(2024, 1, 1, 10, 36, 0)), JStr(Word3("a", "b", "c")), JNum(350)),
      Reading(JStr(Iso(2024, 1, 1, 10, 35, 0)), JStr(Word3("n", "a", "n")), JNum(360)),
      Reading(JStr(<< Num(4, 2024), Chr("/"), Num(2, 1), Chr("/"), Num(2, 1), Ws(1),
                      Num(2, 10), Chr(":"), Num(2, 32), Chr(":"), Num(2, 0) >>),
              JNum(400), JNum(320)),
      Reading(JStr(<< Num(4, 2024), Chr("-"), Num(1, 1), Chr("-"), Num(1, 1), Ws(2),
                      Num(2, 10), Chr(":"), Num(2, 34), Chr(":"), Num(1, 5) >>),
              JNum(410), JNum(330)),
      Reading(JNum(1030), JNum(420), JNum(370)) }

MaxRecs == 3

RecordLists == UNION { [1..n -> RecordPool] : n \in 0..MaxRecs }

Nows ==
    { DateTime(2024, 1, 1, 10, 0, 0),  DateTime(2024, 1, 1, 10, 7, 30),
      DateTime(2024, 1, 1, 10, 14, 59), DateTime(2024, 1, 1, 10, 37, 20),
      DateTime(2024, 1, 1, 10, 50, 0), DateTime(2024, 1, 1, 10, 59, 59),
      DateTime(2024, 1, 1, 0, 5, 0),   DateTime(2023, 12, 31, 23, 50, 10) }

MaxSlotMinutes == 61

MaxAge == 46

(***************************************************************************)
(* State                                                                   *)
(***************************************************************************)
VARIABLES
    bs_pc, bs_now, bs_slot_minutes, bs_max_age_min, bs_ret,
    pk_pc, pk_records, pk_slots, pk_slot_minutes, pk_by_slot, pk_ret,
    pc,          \* position of main()
    environ,     \* os.environ: the settings as raw strings
    cfg,         \* the settings once read
    now_local,   \* datetime.now() of the run
    slots,       \* the grid of the run
    estaciones,  \* what get_nearest_stations returned
    idx,         \* position of the station loop in estaciones[:3]
    chosen,      \* the chosen station and its selection
    msg,         \* the message built for the alert
    chat_i,      \* position of the loop over chat_ids
    net,         \* the network calls made so far, in order
    tried,       \* what each pass of the station loop did
    exit_code,   \* the process exit status, -1 while running
    outcome      \* how the run ended

slotVars == <<bs_pc, bs_now, bs_slot_minutes, bs_max_age_min, bs_ret>>

pickVars == <<pk_pc, pk_records, pk_slots, pk_slot_minutes, pk_by_slot, pk_ret>>

mainVars == <<pc, environ, cfg, now_local, slots, estaciones, idx, chosen, msg, chat_i,
              net, tried, exit_code, outcome>>

vars == <<slotVars, pickVars, mainVars>>

SlotsIdle ==
    /\ bs_pc = "idle" /\ bs_now = None /\ bs_slot_minutes = 0 /\ bs_max_age_min = 0
    /\ bs_ret = None

PickIdle ==
    /\ pk_pc = "idle" /\ pk_records = <<>> /\ pk_slots = <<>> /\ pk_slot_minutes = 0
    /\ pk_by_slot = <<>> /\ pk_ret = None

MainIdle ==
    /\ pc = "idle" /\ environ = <<>> /\ cfg = None /\ now_local = None /\ slots = <<>>
    /\ estaciones = <<>> /\ idx = 0 /\ chosen = None /\ msg = None /\ chat_i = 0
    /\ net = <<>> /\ tried = <<>> /\ exit_code = -1 /\ outcome = "running"

(***************************************************************************)
(* build_slots as a call: SpecSlots                                        *)
(***************************************************************************)
InitSlots ==
    /\ bs_pc = "call"
    /\ bs_now \in Nows
    /\ bs_slot_minutes \in 1..MaxSlotMinutes
    /\ bs_max_age_min \in 0..MaxAge
    /\ bs_ret = None
    /\ PickIdle
    /\ MainIdle

BuildSlots ==
    /\ bs_pc = "call"
    /\ bs_ret' = build_slots(bs_now, bs_slot_minutes, bs_max_age_min)
    /\ bs_pc' = "ret"
    /\ UNCHANGED <<bs_now, bs_slot_minutes, bs_max_age_min, pickVars, mainVars>>

NextSlots == BuildSlots

SpecSlots == InitSlots /\ [][NextSlots]_vars

(***************************************************************************)
(* pick_heatindex_record as a call: SpecPick                               *)
(***************************************************************************)
\* grids as build_slots makes them, an empty grid and an oldest-first grid
GridPool ==
    { [slots |-> build_slots(c[1], c[2], c[3]).slots, slot_minutes |-> c[2]] :
          c \in { <<DateTime(2024, 1, 1, 10, 37, 20), 15, 45>>,
                  <<DateTime(2024, 1, 1, 10, 37, 20), 15, 0>>,
                  <<DateTime(2024, 1, 1, 10, 37, 20), 25, 50>>,
                  <<DateTime(2024, 1, 1, 10, 50, 0), 15, 45>> } }
    \cup { [slots |-> <<>>, slot_minutes |-> 15],
           [slots |-> << DateTime(2024, 1, 1, 10, 0, 0), DateTime(2024, 1, 1, 10, 15, 0),
                         DateTime(2024, 1, 1, 10, 30, 0) >>, slot_minutes |-> 15] }

InitPick ==
    /\ pk_pc = "call"
    /\ pk_records \in RecordLists
    /\ \E g \in GridPool : pk_slots = g.slots /\ pk_slot_minutes = g.slot_minutes
    /\ pk_by_slot = <<>>
    /\ pk_ret = None
    /\ SlotsIdle
    /\ MainIdle

PickRecord ==
    /\ pk_pc = "call"
    /\ LET filled == pick_fill(pk_records, 1, pk_slot_minutes, <<>>)
       IN  /\ pk_by_slot' = filled.by_slot
           /\ pk_ret' = pick_return(filled, pk_slots)
    /\ pk_pc' = "ret"
    /\ UNCHANGED <<pk_records, pk_slots, pk_slot_minutes, slotVars, mainVars>>

NextPick == PickRecord

SpecPick == InitPick /\ [][NextPick]_vars

(***************************************************************************)
(* Inputs of a run of main(): environment, clock, API responses            *)
(***************************************************************************)
BaseEnv ==
    [TELEGRAM_TOKEN    |-> Set(Word3("t", "o", "k")),
     TELEGRAM_CHAT_IDS |-> Set(<< Num(2, 11), Chr(","), Num(2, 22) >>),
     REDMET_USER       |-> Set(Word3("u", "s", "r")),
     REDMET_PASS       |-> Set(Word3("p", "w", "d")),
     LAT               |-> Set(<< Num(2, 10), Chr("."), Num(1, 5) >>),
     LON               |-> Set(<< Chr("-"), Num(2, 84), Chr("."), Num(1, 1) >>),
     HEAT_INDEX_THRESHOLD |-> Unset,
     SLOT_MINUTES      |-> Unset,
     MAX_AGE_MIN       |-> Unset,
     LOOKBACK_HOURS    |-> Unset,
     SUPPRESS_IF_OLDER_THAN_MIN |-> Unset]

RequiredKeys ==
    {"TELEGRAM_TOKEN", "TELEGRAM_CHAT_IDS", "REDMET_USER", "REDMET_PASS", "LAT", "LON"}

\* recipient lists: blanks and empty entries around two ids, one id, three
\* ids, nothing but separators
ChatPool ==
    { << Ws(1), Num(2, 11), Ws(1), Chr(","), Ws(1), Chr(","), Num(2, 22), Ws(1) >>,
      << Num(2, 11) >>,
      << Num(2, 11), Chr(","), Num(2, 22), Chr(","), Num(2, 33) >>,
      << Chr(","), Ws(1), Chr(",") >>,
      << Chr(",") >> }

\* optional settings: a short staleness cutoff, a high threshold, a wider
\* grid, values float() or int() reject, slot widths and ages the grid cannot
\* be built with, and a lookback that reaches before the year 1
OptionPool ==
    { [BaseEnv EXCEPT !.SUPPRESS_IF_OLDER_THAN_MIN = Set(<< Num(2, 20) >>)],
      [BaseEnv EXCEPT !.HEAT_INDEX_THRESHOLD = Set(<< Num(2, 35), Chr("."), Num(1, 5) >>)],
      [BaseEnv EXCEPT !.SLOT_MINUTES = Set(<< Num(2, 30) >>),
                      !.MAX_AGE_MIN = Set(<< Ws(1), Num(2, 60) >>)],
      [BaseEnv EXCEPT !.SLOT_MINUTES = Set(<< Num(2, 25) >>),
                      !.SUPPRESS_IF_OLDER_THAN_MIN = Set(<< Num(2, 50) >>)],
      [BaseEnv EXCEPT !.HEAT_INDEX_THRESHOLD = Set(<<>>)],
      [BaseEnv EXCEPT !.SLOT_MINUTES = Set(<< Num(2, 15), Chr("."), Num(1, 0) >>)],
      [BaseEnv EXCEPT !.SLOT_MINUTES = Set(<< Num(1, 0) >>)],
      [BaseEnv EXCEPT !.SLOT_MINUTES = Set(<< Chr("-"), Num(2, 15) >>)],
      [BaseEnv EXCEPT !.SLOT_MINUTES = Set(<< Chr("-"), Num(2, 30) >>)],
      [BaseEnv EXCEPT !.SLOT_MINUTES = Set(<< Num(9, 500000000) >>),
                      !.MAX_AGE_MIN = Set(<< Num(10, 2000000000) >>)],
      [BaseEnv EXCEPT !.SLOT_MINUTES = Set(<< Chr("-"), Num(2, 40) >>),
                      !.MAX_AGE_MIN = Set(<< Chr("-"), Num(1, 1) >>)],
      [BaseEnv EXCEPT !.MAX_AGE_MIN = Set(<< Num(10, 2000000000) >>)],
      [BaseEnv EXCEPT !.LOOKBACK_HOURS = Set(<< Num(8, 20000000) >>)] }

EnvPool ==
    {BaseEnv}
    \cup { [BaseEnv EXCEPT ![key] = Unset] : key \in RequiredKeys }
    \cup { [BaseEnv EXCEPT ![key] = Set(<< Ws(2) >>)] : key \in RequiredKeys }
    \cup { [BaseEnv EXCEPT !.TELEGRAM_CHAT_IDS = Set(c)] : c \in ChatPool }
    \cup OptionPool

MainNows ==
    { DateTime(2024, 1, 1, 10, 37, 20), DateTime(2024, 1, 1, 10, 30, 0),
      DateTime(2024, 1, 1, 10, 44, 59) }

Station(estacionid, codigo, distancia) ==
    Obj(<< Pair(K_estacionid, estacionid), Pair(K_codigo, codigo),
           Pair(K_finca, JStr(Word3("f", "c", "a"))), Pair(K_distancia, distancia) >>)

St1 == Station(JInt(101), JStr(<< Chr("A"), Num(2, 1) >>), JNum(12))

St2 == Station(JInt(102), JStr(<< Chr("A"), Num(2, 2) >>), JNum(25))

St3 == Station(JStr(<< Num(3, 103) >>), JStr(<< Chr("A"), Num(2, 3) >>), JNum(31))

St4 == Station(JInt(104), JAbsent, JNull)

StNoId == Station(JAbsent, JStr(<< Chr("B"), Num(2, 1) >>), JNum(5))

StTrueId == Station(JBool(TRUE), JStr(<< Chr("B"), Num(2, 3) >>), JNum(9))

StEmptyDictId == Station(Obj(<<>>), JStr(<< Chr("B"), Num(2, 4) >>), JNum(11))

StZeroId == Station(JInt(0), JStr(<< Chr("B"), Num(2, 2) >>), JNum(7))

\* bodies of the station lookup
LookupBodies ==
    { Obj(<< Pair(K_estaciones, JList(l)) >>) :
          l \in { <<>>, << St1 >>, << St1, St2, St3, St4 >>, << StNoId, St1, St2, St3 >>,
                  << St1, StZeroId, St2 >>, << StNoId, StZeroId, StNoId, St1 >>,
                  << St3, St1 >>, << JStr(Word3("a", "b", "c")), St1 >>,
                  << StEmptyDictId, StTrueId >> } }
    \cup { Obj(<<>>), Obj(<< Pair(K_estaciones, JNull) >>),
           Obj(<< Pair(K_estaciones, Obj(<<>>)) >>),
           Obj(<< Pair(K_estaciones, Obj(<< Pair(K_codigo, JInt(1)) >>)) >>),
           Obj(<< Pair(K_estaciones, JStr(Word3("a", "b", "c"))) >>),
           Obj(<< Pair(K_estaciones, JInt(5)) >>),
           JNull, NotJson }

\* an HTTP call either fails (raise_for_status or the transport raises) or
\* hands back a decoded body
Fail == [t |-> "fail", body |-> JNull]

Ok(body) == [t |-> "ok", body |-> body]

LookupPool == {Fail} \cup { Ok(b) : b \in LookupBodies }

\* record lists of a station
RecHot == << Reading(JStr(Iso(2024, 1, 1, 10, 31, 0)), JNum(350), JNum(300)) >>

RecEdge == << Reading(JStr(Iso(2024, 1, 1, 10, 17, 20)),
                      JStr(<< Num(2, 36), Chr("."), Num(1, 5) >>), JAbsent) >>

RecOld == << Reading(JStr(Iso(2024, 1, 1, 10, 16, 0)), JNum(120), JNum(110)) >>

RecEqual == << Reading(JStr(Iso(2024, 1, 1, 10, 33, 0)), JNum(100), JNum(95)) >>

RecNaN == << Reading(JStr(Iso(2024, 1, 1, 10, 35, 0)), JStr(Word3("n", "a", "n")),
                     JNum(290)) >>

RecUnusable == << Reading(JStr(Iso(2024, 1, 1, 10, 34, 0)), JNull, JNum(280)),
                  Reading(JStr(Iso(2024, 1, 1, 8, 0, 0)), JNum(390), JNum(300)) >>

\* a reading on the first second of the oldest default slot, and one on the
\* last second of the current slot
RecOldest == << Reading(JStr(Iso(2024, 1, 1, 9, 45, 0)), JNum(300), JNum(280)) >>

RecFuture == << Reading(JStr(Iso(2024, 1, 1, 10, 44, 59)), JNum(310), JNum(290)) >>

RecNotDict == << JStr(Word3("a", "b", "c")) >>

\* bodies of the records call for the station whose identifier prints as key
FetchBodies(key) ==
    { Obj(<< Pair(key, JList(l)) >>) :
          l \in { RecHot, RecEdge, RecOld, RecEqual, RecNaN, RecUnusable, RecOldest,
                  RecFuture, <<>> } }
    \cup { Obj(<< Pair(<< Num(3, 999) >>, JList(RecHot)) >>),
           Obj(<< Pair(key, JNull) >>),
           JList(RecHot), JList(RecNotDict), JNull, NotJson }

FetchPool(key) == {Fail} \cup { Ok(b) : b \in FetchBodies(key) }

(***************************************************************************)
(* main() as a run of the program: Spec                                    *)
(***************************************************************************)
Init ==
    /\ pc = "start"
    /\ environ \in EnvPool
    /\ cfg = None /\ now_local = None /\ slots = <<>>
    /\ estaciones = <<>> /\ idx = 0 /\ chosen = None /\ msg = None /\ chat_i = 0
    /\ net = <<>> /\ tried = <<>> /\ exit_code = -1 /\ outcome = "running"
    /\ SlotsIdle
    /\ PickIdle

\* main() returns code, or an exception leaves it (exit status 1)
Exit(code, how) ==
    /\ pc' = "done"
    /\ exit_code' = code
    /\ outcome' = how

\* lines 139-171: read the settings and the clock, build the grid and the
\* query window.  A grid whose loop runs away ends the run in OverflowError
\* or MemoryError, whichever the machine meets first
Configure ==
    /\ pc = "start"
    /\ IF ~required_present(environ)
       THEN Exit(2, "config_error") /\ UNCHANGED <<cfg, now_local, slots>>
       ELSE IF parse_chat_ids(env(environ.TELEGRAM_CHAT_IDS, <<>>)) = <<>>
       THEN Exit(2, "config_error") /\ UNCHANGED <<cfg, now_local, slots>>
       ELSE IF ~options_ok(options(environ))
       THEN Exit(1, "ValueError") /\ UNCHANGED <<cfg, now_local, slots>>
       ELSE /\ cfg' = config(environ, options(environ))
            /\ \E now \in MainNows :
                  LET grid == build_slots(now, cfg'.slot_minutes, cfg'.max_age_min)
                  IN  /\ now_local' = now
                      /\ IF grid.t = "unbounded"
                         THEN /\ \E how \in {"OverflowError", "MemoryError"} : Exit(1, how)
                              /\ UNCHANGED slots
                         ELSE IF grid.t # "ret"
                         THEN Exit(1, grid.t) /\ UNCHANGED slots
                         ELSE IF lookback_overflows(now, cfg'.lookback_hours)
                         THEN Exit(1, "OverflowError") /\ slots' = grid.slots
                         ELSE /\ slots' = grid.slots
                              /\ pc' = "locate"
                              /\ UNCHANGED <<exit_code, outcome>>
    /\ UNCHANGED <<environ, estaciones, idx, chosen, msg, chat_i, net, tried,
                   slotVars, pickVars>>

\* lines 174-177: the station lookup
LocateStations ==
    /\ pc = "locate"
    /\ \E resp \in LookupPool :
          /\ net' = Append(net, [op |-> "lookup", lat |-> env(environ.LAT, <<>>),
                                 lon |-> env(environ.LON, <<>>), ok |-> resp.t = "ok"])
          /\ IF raise_for_status(resp)
             THEN Exit(1, "transport_error") /\ UNCHANGED <<estaciones, idx>>
             ELSE IF get_nearest_stations(resp.body).t # "ret"
             THEN Exit(1, get_nearest_stations(resp.body).t)
                  /\ UNCHANGED <<estaciones, idx>>
             ELSE IF get_nearest_stations(resp.body).v.t # "list"
             THEN /\ \E how \in slice_error(get_nearest_stations(resp.body).v) :
                        Exit(1, how)
                  /\ UNCHANGED <<estaciones, idx>>
             ELSE /\ estaciones' = get_nearest_stations(resp.body).v.items
                  /\ IF estaciones' = <<>>
                     THEN Exit(0, "no_stations") /\ UNCHANGED idx
                     ELSE pc' = "station" /\ idx' = 1 /\ UNCHANGED <<exit_code, outcome>>
    /\ UNCHANGED <<environ, cfg, now_local, slots, chosen, msg, chat_i, tried,
                   slotVars, pickVars>>

\* the station the loop of line 182 is at
sta_at(i) == first_three(estaciones)[i]

\* lines 183-185: a station without identifier is passed over (an entry that
\* is not a dict has no .get)
SkipStation ==
    /\ pc = "station"
    /\ idx <= Len(first_three(estaciones))
    /\ IF sta_at(idx).t # "obj"
       THEN Exit(1, "AttributeError") /\ UNCHANGED <<idx, tried>>
       ELSE /\ ~Truthy(Get(sta_at(idx), K_estacionid))
            /\ tried' = Append(tried, [idx |-> idx, did |-> "skipped", records |-> <<>>])
            /\ idx' = idx + 1
            /\ UNCHANGED <<pc, exit_code, outcome>>
    /\ UNCHANGED <<environ, cfg, now_local, slots, estaciones, chosen, msg, chat_i, net,
                   slotVars, pickVars>>

\* the selection made into the chosen tuple of line 196
chosen_of(i, r) ==
    [sta |-> sta_at(i), rec |-> r.rec, hi_val |-> r.hi_val, t_val |-> r.t_val,
     dt_api |-> r.dt_api, slot_used |-> r.slot,
     age |-> age_seconds(now_local, r.dt_api.v)]

\* lines 187-197: fetch the records of the station and select from them
TryStation ==
    /\ pc = "station"
    /\ idx <= Len(first_three(estaciones))
    /\ sta_at(idx).t = "obj"
    /\ Truthy(Get(sta_at(idx), K_estacionid))
    /\ \E resp \in FetchPool(py_str(Get(sta_at(idx), K_estacionid))) :
          /\ net' = Append(net, [op |-> "fetch",
                                 estacionid |-> py_str(Get(sta_at(idx), K_estacionid)),
                                 fechaini |-> fechaini_of(now_local, cfg.lookback_hours),
                                 fechafin |-> fechafin_of(now_local),
                                 ok |-> resp.t = "ok"])
          /\ IF raise_for_status(resp)
             THEN Exit(1, "transport_error") /\ UNCHANGED <<idx, tried, chosen>>
             ELSE LET got == get_station_records(resp.body,
                                                 py_str(Get(sta_at(idx), K_estacionid)))
                      r == pick_heatindex_record(got.v, slots, cfg.slot_minutes)
                  IN  IF got.t # "ret"
                      THEN Exit(1, got.t) /\ UNCHANGED <<idx, tried, chosen>>
                      ELSE IF got.v = <<>>
                      THEN /\ tried' = Append(tried, [idx |-> idx, did |-> "no_records",
                                                      records |-> got.v])
                           /\ idx' = idx + 1
                           /\ UNCHANGED <<pc, exit_code, outcome, chosen>>
                      ELSE IF r.t # "ret"
                      THEN Exit(1, r.t) /\ UNCHANGED <<idx, tried, chosen>>
                      ELSE IF r.rec = None
                      THEN /\ tried' = Append(tried, [idx |-> idx, did |-> "no_selection",
                                                      records |-> got.v])
                           /\ idx' = idx + 1
                           /\ UNCHANGED <<pc, exit_code, outcome, chosen>>
                      ELSE /\ tried' = Append(tried, [idx |-> idx, did |-> "chosen",
                                                      records |-> got.v])
                           /\ chosen' = chosen_of(idx, r)
                           /\ pc' = "decide"
                           /\ UNCHANGED <<idx, exit_code, outcome>>
    /\ UNCHANGED <<environ, cfg, now_local, slots, estaciones, msg, chat_i,
                   slotVars, pickVars>>

\* lines 199-201: the loop ran out of stations with nothing chosen
NoneChosen ==
    /\ pc = "station"
    /\ idx > Len(first_three(estaciones))
    /\ Exit(0, "no_selection")
    /\ UNCHANGED <<environ, cfg, now_local, slots, estaciones, idx, chosen, msg, chat_i,
                   net, tried, slotVars, pickVars>>

\* lines 203-237: the age test, then the threshold test, then the message
Decide ==
    /\ pc = "decide"
    /\ IF too_old(chosen.age, cfg.suppress_if_older_than_min)
       THEN Exit(0, "suppressed_age") /\ UNCHANGED <<msg, chat_i>>
       ELSE IF FloatLE(chosen.hi_val, cfg.heat_index_threshold)
       THEN Exit(0, "suppressed_threshold") /\ UNCHANGED <<msg, chat_i>>
       ELSE /\ msg' = message(chosen.sta, chosen.rec, chosen.hi_val, chosen.t_val,
                              cfg.heat_index_threshold, chosen.age)
            /\ chat_i' = 1
            /\ pc' = "send"
            /\ UNCHANGED <<exit_code, outcome>>
    /\ UNCHANGED <<environ, cfg, now_local, slots, estaciones, idx, chosen, net, tried,
                   slotVars, pickVars>>

\* lines 50-57: one pass of the loop of send_telegram_html
SendOne ==
    /\ pc = "send"
    /\ ~send_done(chat_i, cfg.chat_ids)
    /\ \E resp \in {Fail, Ok(JNull)} :
          /\ net' = Append(net, [op |-> "send", token |-> cfg.telegram_token,
                                 chat_id |-> cfg.chat_ids[chat_i], text |-> msg,
                                 ok |-> resp.t = "ok"])
          /\ IF raise_for_status(resp)
             THEN Exit(1, "transport_error") /\ UNCHANGED chat_i
             ELSE chat_i' = chat_i + 1 /\ UNCHANGED <<pc, exit_code, outcome>>
    /\ UNCHANGED <<environ, cfg, now_local, slots, estaciones, idx, chosen, msg, tried,
                   slotVars, pickVars>>

\* lines 239-241: every recipient was sent to
Finish ==
    /\ pc = "send"
    /\ send_done(chat_i, cfg.chat_ids)
    /\ Exit(0, "alert_sent")
    /\ UNCHANGED <<environ, cfg, now_local, slots, estaciones, idx, chosen, msg, chat_i,
                   net, tried, slotVars, pickVars>>

Next ==
    \/ Configure
    \/ LocateStations
    \/ SkipStation
    \/ TryStation
    \/ NoneChosen
    \/ Decide
    \/ SendOne
    \/ Finish

Spec == Init /\ [][Next]_vars

(***************************************************************************)
(* Properties of build_slots (SpecSlots)                                   *)
(***************************************************************************)
\* C7: for slotMinutes > 0 and maxAgeMinutes >= 0 the grid is strictly
\* decreasing, has floor(maxAgeMinutes/slotMinutes)+1 slots, its k-th slot is
\* currentSlot - k*slotMinutes, and currentSlot has zero seconds and a minute
\* that is a multiple of slotMinutes and at most the minute of now.
C7_GridShape ==
    (bs_pc = "ret" /\ bs_slot_minutes > 0 /\ bs_max_age_min >= 0) =>
        LET sl == bs_ret.slots
            n  == Len(sl)
        IN  /\ bs_ret.t = "ret"
            /\ n = (bs_max_age_min \div bs_slot_minutes) + 1
            /\ sl[1] = bs_ret.base_slot
            /\ \A k \in 1..n :
                  sl[k] = MinusMinutes(bs_ret.base_slot, (k - 1) * bs_slot_minutes)
            /\ \A k \in 1..(n - 1) : Before(sl[k + 1], sl[k])
            /\ sl[1].d = bs_now.d /\ sl[1].s \div 3600 = bs_now.s \div 3600
            /\ Second(sl[1]) = 0
            /\ Minute(sl[1]) % bs_slot_minutes = 0
            /\ Minute(sl[1]) <= Minute(bs_now)

\* a grid of four slots built from an instant that is off the grid, with
\* maxAgeMinutes an exact multiple of slotMinutes
C7_Witness ==
    /\ bs_pc = "ret"
    /\ Len(bs_ret.slots) = 4
    /\ bs_max_age_min = 3 * bs_slot_minutes
    /\ Minute(bs_now) % bs_slot_minutes # 0
    /\ Second(bs_now) # 0

\* the slots of the returned grid as a set
GridSet == { bs_ret.slots[i] : i \in 1..Len(bs_ret.slots) }

\* dt moved by a number of seconds
Plus(dt, seconds) == Shift(dt, 0, seconds)

\* first instant of the window of the grid, and first instant after it
WindowLo ==
    MinusMinutes(bs_ret.base_slot, (bs_max_age_min \div bs_slot_minutes) * bs_slot_minutes)

WindowHi == Plus(bs_ret.base_slot, bs_slot_minutes * 60)

\* seconds the window spans
WindowSpan == (bs_max_age_min \div bs_slot_minutes + 1) * bs_slot_minutes * 60

\* WindowLo <= ts < WindowHi
InWindow(ts) == ~Before(ts, WindowLo) /\ Before(ts, WindowHi)

\* record timestamps on, next to and away from the ends of the window and of
\* the current slot
SampleTimes ==
    { Plus(WindowLo, -bs_slot_minutes * 60), Plus(WindowLo, -1), WindowLo,
      Plus(WindowLo, 1), Plus(WindowLo, 59), Plus(WindowLo, WindowSpan \div 2),
      Plus(bs_ret.base_slot, -1), bs_ret.base_slot, Plus(bs_ret.base_slot, 1),
      Plus(WindowHi, -1), WindowHi, Plus(WindowHi, 1),
      Plus(WindowHi, bs_slot_minutes * 60) }

\* the call with 25-minute slots over 25 minutes at 10:07:30
Call25 ==
    /\ bs_pc = "ret"
    /\ bs_now = DateTime(2024, 1, 1, 10, 7, 30)
    /\ bs_slot_minutes = 25 /\ bs_max_age_min = 25

\* C18: when slotMinutes divides 60, every slot of the grid is a fixed point
\* of floor_to_slot, so a record timestamp floors to a grid slot if and only
\* if it lies in [currentSlot - floor(maxAgeMinutes/slotMinutes)*slotMinutes,
\* currentSlot + slotMinutes); when slotMinutes does not divide 60 this can
\* fail: the grid of 25-minute slots built at 10:07:30 is 10:00, 09:35, and
\* no timestamp of the 25 minutes from 09:35 on floors to 09:35 or to any
\* other slot of the grid, although they lie inside the window.
C18_SharedGrid ==
    /\ (bs_pc = "ret" /\ 60 % bs_slot_minutes = 0) =>
          /\ \A i \in 1..Len(bs_ret.slots) :
                floor_to_slot(bs_ret.slots[i], bs_slot_minutes) = bs_ret.slots[i]
          /\ \A ts \in SampleTimes :
                (floor_to_slot(ts, bs_slot_minutes) \in GridSet) = InWindow(ts)
    /\ Call25 =>
          /\ bs_ret.slots = << DateTime(2024, 1, 1, 10, 0, 0),
                               DateTime(2024, 1, 1, 9, 35, 0) >>
          /\ \A d \in 0..(25 * 60 - 1) :
                /\ InWindow(Plus(bs_ret.slots[2], d))
                /\ floor_to_slot(Plus(bs_ret.slots[2], d), 25) \notin GridSet

\* a grid of four quarter-hour slots that reaches back across the hour
C18_Witness ==
    /\ bs_pc = "ret"
    /\ bs_slot_minutes = 15 /\ bs_max_age_min = 45
    /\ Minute(bs_now) < 15
    /\ Len(bs_ret.slots) = 4
    /\ Minute(bs_ret.slots[4]) = 15

(***************************************************************************)
(* Properties of pick_heatindex_record (SpecPick)                          *)
(***************************************************************************)
\* a numeric value: a JSON number, or a string holding a decimal literal;
\* nan and the infinities are not numbers
IsNumeric(x) ==
    \/ x.t = "int"
    \/ x.t = "num" /\ x.f.k \in {"num", "sub"}
    \/ x.t = "str" /\ float_str(x.s) # None /\ float_str(x.s).k \in {"num", "sub"}

\* a usable reading: parseable timestamp and numeric heat index
Usable(r) ==
    /\ r.t = "obj"
    /\ Get(r, K_fecha).t = "str"
    /\ parse_api_dt(Get(r, K_fecha).s) # None
    /\ IsNumeric(Get(r, K_indice_calor))

\* per reading of the call: whether it is usable, its timestamp and its slot
RecInfo ==
    [i \in 1..Len(pk_records) |->
        IF Usable(pk_records[i])
        THEN LET ts == parse_api_dt(Get(pk_records[i], K_fecha).s).v
             IN  [ok |-> TRUE, ts |-> ts, slot |-> floor_to_slot(ts, pk_slot_minutes)]
        ELSE [ok |-> FALSE, ts |-> None, slot |-> None]]

\* positions of the usable readings that floor to slot s
UsableAt(info, s) == { i \in DOMAIN info : info[i].ok /\ info[i].slot = s }

MaxOf(S) == CHOOSE x \in S : \A y \in S : y <= x

MinOf(S) == CHOOSE x \in S : \A y \in S : x <= y

\* grid positions that have some usable reading flooring to them
GridHits(info) == { j \in 1..Len(pk_slots) : UsableAt(info, pk_slots[j]) # {} }

\* C1: the selector returns the reading stored for the first grid slot, in
\* grid order, that has a usable reading (parseable timestamp, numeric heat
\* index); the returned slot is that grid slot and is the floor of the
\* returned reading's timestamp; the result is "none" exactly when no grid
\* slot has a usable reading.
C1_FirstGridSlot ==
    pk_pc = "ret" =>
        LET info == RecInfo
            hits == GridHits(info)
        IN  IF hits = {} THEN pk_ret = NoSelection
            ELSE LET s == pk_slots[MinOf(hits)]
                 IN  /\ pk_ret.rec # None
                     /\ pk_ret.slot.v = s
                     /\ pk_ret.rec = pk_by_slot[s].rec
                     /\ \E i \in UsableAt(info, s) :
                           pk_records[i] = pk_ret.rec /\ pk_ret.dt_api.v = info[i].ts
                     /\ floor_to_slot(pk_ret.dt_api.v, pk_slot_minutes) = pk_ret.slot.v

\* C2: the returned reading has the greatest timestamp among the usable
\* readings whose slot is on the grid.
C2_MostRecent ==
    (pk_pc = "ret" /\ pk_ret.rec # None) =>
        LET info == RecInfo
        IN  \A j \in 1..Len(pk_slots) : \A i \in UsableAt(info, pk_slots[j]) :
                ~Before(pk_ret.dt_api.v, info[i].ts)

\* C8: when usable readings (parseable timestamp, numeric heat index) floor
\* to a slot, the reading retained for that slot is the usable one that
\* comes last in the input, whatever the timestamps; a later reading of the
\* slot that is to be discarded (bad timestamp or heat index) does not
\* replace it.
C8_LastWins ==
    (pk_pc = "ret" /\ pk_ret.t = "ret") =>
        LET info == RecInfo
        IN  \A i \in DOMAIN info :
                info[i].ok =>
                    /\ info[i].slot \in DOMAIN pk_by_slot
                    /\ pk_by_slot[info[i].slot].rec
                          = pk_records[MaxOf(UsableAt(info, info[i].slot))]

\* the spec's timestamp shape: exactly YYYY-MM-DD HH:MM:SS
ExactFormat(s) ==
    /\ Len(s) = 11
    /\ s[1].k = "num" /\ s[1].n = 4
    /\ \A p \in {3, 5, 7, 9, 11} : s[p].k = "num" /\ s[p].n = 2
    /\ s[2] = Chr("-") /\ s[4] = Chr("-") /\ s[6] = Ws(1)
    /\ s[8] = Chr(":") /\ s[10] = Chr(":")

\* C9: a returned reading has a string timestamp in the exact format
\* YYYY-MM-DD HH:MM:SS and a heat index that is present and numeric; a
\* reading whose temperature is missing or non-numeric is still eligible and
\* is returned with temperature None.
C9_ExactFormatOnly ==
    (pk_pc = "ret" /\ pk_ret.rec # None) =>
        /\ Get(pk_ret.rec, K_fecha).t = "str"
        /\ ExactFormat(Get(pk_ret.rec, K_fecha).s)
        /\ IsNumeric(Get(pk_ret.rec, K_indice_calor))
        /\ ~IsNumeric(Get(pk_ret.rec, K_temperatura)) => pk_ret.t_val = None

(***************************************************************************)
(* Properties of a run of main() (Spec)                                    *)
(***************************************************************************)
\* a timedelta in seconds
AgeSecs(age) == age.days * 86400 + age.seconds

IsFetch(c) == c.op = "fetch"

IsSend(c) == c.op = "send"

Fetches == SelectSeq(net, IsFetch)

Sends == SelectSeq(net, IsSend)

\* positions among the first three located stations that carry an identifier
WithId ==
    { i \in 1..Len(estaciones) :
          i <= 3 /\ estaciones[i].t = "obj" /\ Truthy(Get(estaciones[i], K_estacionid)) }

\* the records a pass of the station loop got yield a selection
Yields(j) ==
    pick_heatindex_record(tried[j].records, slots, cfg.slot_minutes).rec # None

\* C3: stations are tried in the order of the locator and only among its
\* first three entries; an entry without identifier is passed over without a
\* fetch but counts as one of the three; the chosen station is the
\* lowest-index one whose records yield a selection, and after it no station
\* is fetched or used, also when the reading is then suppressed.
C3_StationOrder ==
    /\ \A j \in 1..Len(tried) :
          /\ tried[j].idx = j /\ j <= 3 /\ j <= Len(estaciones)
          /\ (tried[j].did = "skipped") = (j \notin WithId)
          /\ (tried[j].did = "chosen") = Yields(j)
          /\ Yields(j) => j = Len(tried)
    /\ Len(Fetches) <= Cardinality(WithId)
    /\ \A n \in 1..Len(Fetches) :
          \E i \in WithId :
              /\ Cardinality({ h \in WithId : h <= i }) = n
              /\ Fetches[n].estacionid = py_str(Get(estaciones[i], K_estacionid))
              /\ i <= Len(tried) + 1
    /\ chosen # None =>
          /\ tried # <<>> /\ Yields(Len(tried))
          /\ chosen.sta = estaciones[Len(tried)]
          /\ Len(Fetches) = Cardinality({ h \in WithId : h <= Len(tried) })

\* the second fetched station was chosen behind an entry without identifier
\* and a station without records, a fourth station was located, and the run
\* ended with the reading suppressed
C3_Witness ==
    /\ pc = "done" /\ outcome \in {"suppressed_age", "suppressed_threshold"}
    /\ Len(estaciones) = 4 /\ Len(tried) = 3
    /\ tried[1].did = "skipped" /\ tried[2].did = "no_records" /\ tried[3].did = "chosen"
    /\ Len(Fetches) = 2

\* C4: when the age of the chosen reading is strictly greater than the
\* staleness cutoff, no notification call is made and the run ends with exit
\* code 0 whatever the heat index is; an age equal to the cutoff is not
\* suppressed by age.
C4_AgeGate ==
    chosen # None =>
        /\ AgeSecs(chosen.age) > cfg.suppress_if_older_than_min * 60 =>
              /\ Sends = <<>>
              /\ pc \in {"decide", "done"}
              /\ pc = "done" => exit_code = 0 /\ outcome = "suppressed_age"
        /\ AgeSecs(chosen.age) = cfg.suppress_if_older_than_min * 60 =>
              outcome # "suppressed_age"

\* a reading above the threshold and older than the cutoff was suppressed
C4_Witness ==
    /\ pc = "done" /\ outcome = "suppressed_age" /\ exit_code = 0
    /\ AgeSecs(chosen.age) > cfg.suppress_if_older_than_min * 60
    /\ FloatGT(chosen.hi_val, cfg.heat_index_threshold)
    /\ Sends = <<>>

\* C5: when the heat index of the chosen reading is less than or equal to
\* the threshold, no notification call is made and the run ends with exit
\* code 0; a notification is only ever sent when the value is strictly
\* greater than the threshold.
C5_ThresholdGate ==
    chosen # None =>
        /\ FloatLE(chosen.hi_val, cfg.heat_index_threshold) =>
              /\ Sends = <<>>
              /\ pc = "done" => exit_code = 0
        /\ Sends # <<>> => FloatGT(chosen.hi_val, cfg.heat_index_threshold)

IsNumTok(tk) == tk.k = "num"

\* the recipients of the run: every identifier of the inputs is one number
Recipients ==
    IF environ.TELEGRAM_CHAT_IDS.t = "str"
    THEN SelectSeq(environ.TELEGRAM_CHAT_IDS.s, IsNumTok)
    ELSE <<>>

\* C6: with a valid configuration, a chosen reading that is not older than
\* the staleness cutoff and whose heat index strictly exceeds the threshold,
\* and no transport failure, the run sends exactly one notification per
\* configured recipient, each carrying the reading of the first station that
\* yielded a selection, and ends with exit code 0.
C6_AlertDelivered ==
    ( /\ pc = "done"
      /\ chosen # None
      /\ AgeSecs(chosen.age) <= cfg.suppress_if_older_than_min * 60
      /\ FloatGT(chosen.hi_val, cfg.heat_index_threshold)
      /\ outcome # "transport_error" )
    => /\ exit_code = 0
       /\ Len(Sends) = Len(Recipients)
       /\ \A i \in 1..Len(Sends) :
             /\ Sends[i].chat_id = << Recipients[i] >>
             /\ \E j \in 1..Len(tried) :
                   /\ Yields(j) /\ \A h \in 1..(j - 1) : ~Yields(h)
                   /\ Sends[i].text.codigo = get_or_empty(Get(estaciones[j], K_codigo))
                   /\ Sends[i].text.hi_val = chosen.hi_val
                   /\ Sends[i].text.fecha_api = Get(chosen.rec, K_fecha)
                   /\ chosen.rec =
                        pick_heatindex_record(tried[j].records, slots,
                                              cfg.slot_minutes).rec

\* the first station had no records, the second was chosen, and each of
\* three recipients got the alert
C6_Witness ==
    /\ pc = "done" /\ outcome = "alert_sent" /\ exit_code = 0
    /\ Len(tried) = 2 /\ tried[1].did = "no_records" /\ tried[2].did = "chosen"
    /\ Len(Sends) = 3
    /\ FloatGT(chosen.hi_val, cfg.heat_index_threshold)

\* a setting that is missing, empty or blank
Blank(v) == v.t = "unset" \/ \A i \in 1..Len(v.s) : v.s[i].k = "ws"

\* a recipient list that holds nothing but separators and blanks
NoRecipient(v) ==
    v.t = "str" /\ \A i \in 1..Len(v.s) : v.s[i].k = "ws" \/ v.s[i] = Chr(",")

BadConfig == (\E key \in RequiredKeys : Blank(environ[key]))
                 \/ NoRecipient(environ.TELEGRAM_CHAT_IDS)

\* C10: if a required setting is missing or empty, or the recipient list is
\* empty after trimming and dropping empty entries, the run ends with a
\* non-zero exit code and no network call has been made.
C10_ConfigFatal ==
    BadConfig =>
        /\ net = <<>>
        /\ pc \in {"start", "done"}
        /\ pc = "done" => exit_code = 2

\* the run ended on a recipient list of separators only, all other settings
\* present
C10_Witness ==
    /\ pc = "done" /\ exit_code = 2 /\ net = <<>>
    /\ \A key \in RequiredKeys : ~Blank(environ[key])
    /\ NoRecipient(environ.TELEGRAM_CHAT_IDS)


\* C11: every run with all required configuration present and no transport
\* failure ends with exit code 0, whichever outcome it reaches; a non-zero
\* exit happens only on missing required configuration or a transport
\* failure.
C11_NormalCompletion ==
    pc = "done" =>
        /\ (~BadConfig /\ outcome # "transport_error") => exit_code = 0
        /\ exit_code # 0 => (BadConfig \/ outcome = "transport_error")

\* a call of the run failed in transport
TransportFailed == \E n \in 1..Len(net) : ~net[n].ok

\* C12: a data-quality problem in an API response is never fatal: whatever
\* the shape of the bodies, entries and fields the calls hand back, a run
\* whose calls all went through ends with exit code 0.
C12_DataQualityNotFatal ==
    (pc = "done" /\ net # <<>> /\ ~TransportFailed) => exit_code = 0


\* C13: a transport failure on the station lookup or on a record fetch ends
\* the run at once with a non-zero exit: the failed call is the last call of
\* the run (no retry, no later station) and no notification is sent.
C13_ApiFailureFatal ==
    \A n \in 1..Len(net) :
        (net[n].op \in {"lookup", "fetch"} /\ ~net[n].ok) =>
            /\ n = Len(net)
            /\ pc = "done"
            /\ exit_code \notin {-1, 0}
            /\ Sends = <<>>

\* the fetch of the first of several located stations failed and the run
\* ended there
C13_Witness ==
    /\ pc = "done" /\ exit_code = 1
    /\ Len(net) = 2 /\ net[2].op = "fetch" /\ ~net[2].ok
    /\ Cardinality(WithId) = 3
    /\ tried = <<>>

\* C14: recipients are notified one after the other in configured order; if
\* the delivery to the k-th recipient fails, the run ends with a non-zero
\* exit, nothing is sent to a recipient after k, the failed delivery is not
\* repeated, and each recipient before k has received the message once.
C14_DeliveryFailureFatal ==
    /\ Len(Sends) <= Len(Recipients)
    /\ \A n \in 1..Len(Sends) :
          /\ Sends[n].chat_id = << Recipients[n] >>
          /\ Sends[n].text = msg
          /\ ~Sends[n].ok =>
                /\ n = Len(Sends)
                /\ net[Len(net)] = Sends[n]
                /\ pc = "done"
                /\ exit_code \notin {-1, 0}
                /\ \A h \in 1..(n - 1) : Sends[h].ok

\* the delivery to the second of three recipients failed after the first
\* went through
C14_Witness ==
    /\ pc = "done" /\ exit_code = 1
    /\ Len(Recipients) = 3
    /\ Len(Sends) = 2 /\ Sends[1].ok /\ ~Sends[2].ok

\* position of a kind of call in the order lookup, fetch, send
Rank(c) == CASE c.op = "lookup" -> 1 [] c.op = "fetch" -> 2 [] OTHER -> 3

\* C15: whatever the API returns, a run makes at most one station lookup, at
\* most three record fetches (none after the first fetch whose records yield
\* a selection) and at most one notification call per configured recipient
\* (the n-th call of the run goes to the n-th recipient of the list, so no
\* recipient is called twice and none is passed over); every notification
\* call comes after all fetches and every fetch after the lookup.
C15_CallBudget ==
    /\ Cardinality({ n \in 1..Len(net) : net[n].op = "lookup" }) <= 1
    /\ Len(Fetches) <= 3
    /\ Len(Sends) <= Len(Recipients)
    /\ \A n \in 1..Len(Sends) : Sends[n].chat_id = << Recipients[n] >>
    /\ \A n \in 1..Len(net) : \A h \in 1..(n - 1) : Rank(net[h]) <= Rank(net[n])
    /\ net # <<>> => net[1].op = "lookup"
    /\ \A j \in 1..Len(tried) :
          Yields(j) =>
              Len(Fetches) = Cardinality({ h \in 1..j : tried[h].did # "skipped" })

\* a run that made the lookup, three fetches and a notification call per
\* recipient
C15_Witness ==
    /\ pc = "done" /\ outcome = "alert_sent"
    /\ Len(Fetches) = 3 /\ Len(estaciones) = 4
    /\ Len(Sends) = Len(Recipients) /\ Len(Sends) >= 2
    /\ Len(net) = 4 + Len(Sends)


\* slots of the grid the settings of the run ask for
GridLen == cfg.max_age_min \div cfg.slot_minutes + 1

\* C17: for slotMinutes > 0 and maxAgeMinutes >= 0 a reading selected from
\* the grid built for now has an age strictly between -slotMinutes and
\* (floor(maxAgeMinutes/slotMinutes)+1)*slotMinutes minutes (a reading later
\* than now inside the current slot is selectable, with a negative age);
\* hence with suppress-if-older-than at or above that bound the run never
\* ends suppressed by age.
C17_AgeRange ==
    chosen # None =>
        /\ cfg.slot_minutes > 0 /\ cfg.max_age_min >= 0
        /\ AgeSecs(chosen.age) > -cfg.slot_minutes * 60
        /\ AgeSecs(chosen.age) < GridLen * cfg.slot_minutes * 60
        /\ cfg.suppress_if_older_than_min >= GridLen * cfg.slot_minutes =>
              outcome # "suppressed_age"

\* a reading timestamped after now was chosen and alerted on
C17_Witness ==
    /\ pc = "done" /\ outcome = "alert_sent"
    /\ AgeSecs(chosen.age) < 0
    /\ Before(now_local, chosen.dt_api.v)
    /\ chosen.slot_used.v = slots[1]

====
